---- MODULE Spec2Model ----
(***************************************************************************)
(* Vastu Vision: the layout suggester (ai_layout_suggester.py), the zone   *)
(* energy aggregator (energy_heatmap_generator.py), the blueprint AI       *)
(* service (ai_blueprint_service.py), the assistant (ai_assistant_service  *)
(* .py), the video analysis engine (analyze_video_vastu.py) and the floor  *)
(* plan generator (generate_blueprints.py).                                *)
(*                                                                         *)
(* Python str values are TLA+ strings; Python dicts are functions whose    *)
(* DOMAIN is the set of keys present; an Optional value is the empty set   *)
(* (None) or a singleton.  Python floats are modelled by exact rationals   *)
(* <<numerator, denominator>> in lowest terms.                             *)
(***************************************************************************)
EXTENDS Integers, Sequences, FiniteSets, TLC

VARIABLES
    AZURE_OPENAI_ENABLED,   \* LayoutAIConfig.AZURE_OPENAI_ENABLED
    OPENAI_ENABLED,         \* LayoutAIConfig.OPENAI_ENABLED
    request,                \* the request the suggester service handled last
    provider_calls,         \* providers called while handling it, in order
    response,               \* the HTTP response it produced
    space_data,             \* argument of calculate_zone_energy
    pc,                     \* position inside calculate_zone_energy / calculate_energy
    room_idx,               \* number of rooms the loop has processed
    zone_energy,            \* the local zone_energy map
    element_balance,        \* element_balance of /calculate_energy
    HUGGINGFACE_ENABLED,    \* AIServiceConfig.HUGGINGFACE_ENABLED
    blueprint_pc,           \* position inside generate_ai_blueprint_endpoint
    blueprint_image,        \* result of the provider tried last
    prompts_processed,      \* arguments process_user_prompt was called with
    uploads,                \* the files of UPLOAD_FOLDER, by name
    video,                  \* the /analyze_video handlers in flight
    rules_table,            \* the module-level dictionary VASTU_RULES
    zones_table,            \* the module-level dictionary ENERGY_ZONES
    blueprint_args,         \* arguments of generate_complete_blueprint
    layout_pc,              \* position inside generate_complete_blueprint
    layout_idx,             \* number of entries the current loop has processed
    room_layouts,           \* the local list room_layouts
    used_zones              \* the local set used_zones

suggester_vars == <<AZURE_OPENAI_ENABLED, OPENAI_ENABLED, request, provider_calls, response>>
energy_vars == <<space_data, pc, room_idx, zone_energy, element_balance>>
service_vars == <<HUGGINGFACE_ENABLED, blueprint_pc, blueprint_image, prompts_processed,
                  uploads, video>>
table_vars == <<rules_table, zones_table>>
layout_vars == <<blueprint_args, layout_pc, layout_idx, room_layouts, used_zones>>
vars == <<suggester_vars, energy_vars, service_vars, table_vars, layout_vars>>

(***************************************************************************)
(* Bounds                                                                  *)
(***************************************************************************)
MaxRooms == 2

(***************************************************************************)
(* Python helpers                                                          *)
(***************************************************************************)
None == {}
Some(v) == {v}
Value(opt) == CHOOSE v \in opt : TRUE

\* dict.get(key, default)
Get(d, key, default) == IF key \in DOMAIN d THEN d[key] ELSE default

Min(S) == CHOOSE m \in S : \A n \in S : m <= n

\* str.lower() on one character (ASCII)
LowerChar(c) ==
    CASE c = "A" -> "a" [] c = "B" -> "b" [] c = "C" -> "c" [] c = "D" -> "d"
      [] c = "E" -> "e" [] c = "F" -> "f" [] c = "G" -> "g" [] c = "H" -> "h"
      [] c = "I" -> "i" [] c = "J" -> "j" [] c = "K" -> "k" [] c = "L" -> "l"
      [] c = "M" -> "m" [] c = "N" -> "n" [] c = "O" -> "o" [] c = "P" -> "p"
      [] c = "Q" -> "q" [] c = "R" -> "r" [] c = "S" -> "s" [] c = "T" -> "t"
      [] c = "U" -> "u" [] c = "V" -> "v" [] c = "W" -> "w" [] c = "X" -> "x"
      [] c = "Y" -> "y" [] c = "Z" -> "z" [] OTHER -> c

RECURSIVE Lower(_)
Lower(s) == IF Len(s) = 0 THEN "" ELSE LowerChar(Head(s)) \o Lower(Tail(s))

\* str.replace(old, new) for a one-character old
RECURSIVE Replace(_, _, _)
Replace(s, old, new) ==
    IF Len(s) = 0 THEN ""
    ELSE (IF Head(s) = old THEN new ELSE Head(s)) \o Replace(Tail(s), old, new)

\* the Python expression  sub in s
Contains(sub, s) ==
    \/ Len(sub) = 0
    \/ \E i \in 1..(Len(s) - Len(sub) + 1) : SubSeq(s, i, i + Len(sub) - 1) = sub

(***************************************************************************)
(* Exact rationals for float arithmetic                                    *)
(***************************************************************************)
RECURSIVE GCD(_, _)
GCD(a, b) == IF b = 0 THEN a ELSE GCD(b, a % b)

Rat(n, d) == LET g == GCD(n, d) IN IF n = 0 THEN <<0, 1>> ELSE <<n \div g, d \div g>>
RZero == Rat(0, 1)
ROne == Rat(1, 1)
RAdd(a, b) == Rat(a[1] * b[2] + b[1] * a[2], a[2] * b[2])
RMul(a, b) == Rat(a[1] * b[1], a[2] * b[2])
RDiv(a, b) == Rat(a[1] * b[2], a[2] * b[1])
RLess(a, b) == a[1] * b[2] < b[1] * a[2]
RLeq(a, b) == a[1] * b[2] <= b[1] * a[2]
RMax(a, b) == IF RLess(a, b) THEN b ELSE a
RMin(a, b) == IF RLess(b, a) THEN b ELSE a

(***************************************************************************)
(* ai_layout_suggester.py                                                  *)
(***************************************************************************)

\* The keys of VASTU_RULES in declaration (dict iteration) order.
VASTU_RULE_KEYS ==
    << "kitchen", "bedroom", "master bedroom", "bathroom", "toilet", "puja room",
       "living room", "dining room", "study room", "store room" >>

VASTU_RULES ==
    [ k \in { VASTU_RULE_KEYS[i] : i \in 1..Len(VASTU_RULE_KEYS) } |->
        CASE k = "kitchen" ->
               [ ideal_direction |-> "southeast",
                 alternative |-> <<"south", "east">>,
                 avoid |-> <<"northeast", "northwest", "center">>,
                 reasoning |-> "Kitchen represents fire element (Agni). Southeast (Agneya) is the fire zone in Vastu. This placement ensures good health and prosperity.",
                 elements |-> <<"fire">>,
                 score_weight |-> Rat(12, 10) ]
          [] k = "bedroom" ->
               [ ideal_direction |-> "southwest",
                 alternative |-> <<"south", "west">>,
                 avoid |-> <<"northeast", "east">>,
                 reasoning |-> "Bedroom represents earth element (stability). Southwest is ideal for master bedroom as it provides stability and ensures peaceful sleep.",
                 elements |-> <<"earth">>,
                 score_weight |-> Rat(13, 10) ]
          [] k = "master bedroom" ->
               [ ideal_direction |-> "southwest",
                 alternative |-> <<"south", "west">>,
                 avoid |-> <<"northeast", "east">>,
                 reasoning |-> "Master bedroom in southwest ensures stability, strength, and good health for the head of family.",
                 elements |-> <<"earth">>,
                 score_weight |-> Rat(15, 10) ]
          [] k = "bathroom" ->
               [ ideal_direction |-> "northwest",
                 alternative |-> <<"west", "north">>,
                 avoid |-> <<"northeast", "southeast", "center">>,
                 reasoning |-> "Bathroom represents water element. Northwest placement allows water to flow out naturally. Never in northeast (holy direction).",
                 elements |-> <<"water">>,
                 score_weight |-> Rat(11, 10) ]
          [] k = "toilet" ->
               [ ideal_direction |-> "northwest",
                 alternative |-> <<"west", "north">>,
                 avoid |-> <<"northeast", "southeast", "center", "southwest">>,
                 reasoning |-> "Similar to bathroom, should be in northwest. Must never be in northeast or southwest (master bedroom area).",
                 elements |-> <<"water">>,
                 score_weight |-> Rat(11, 10) ]
          [] k = "puja room" ->
               [ ideal_direction |-> "northeast",
                 alternative |-> <<"east", "north">>,
                 avoid |-> <<"southwest", "southeast", "west">>,
                 reasoning |-> "Prayer room represents spiritual energy. Northeast (Ishanya) is the most auspicious direction for prayer and meditation.",
                 elements |-> <<"space", "water">>,
                 score_weight |-> Rat(14, 10) ]
          [] k = "living room" ->
               [ ideal_direction |-> "northeast",
                 alternative |-> <<"north", "east", "northwest">>,
                 avoid |-> <<"southwest">>,
                 reasoning |-> "Living room is for social activities. Northeast or north ensures positive energy flow and good relationships.",
                 elements |-> <<"air", "space">>,
                 score_weight |-> Rat(10, 10) ]
          [] k = "dining room" ->
               [ ideal_direction |-> "west",
                 alternative |-> <<"northwest", "south">>,
                 avoid |-> <<"northeast">>,
                 reasoning |-> "Dining room in west ensures good digestion and family harmony.",
                 elements |-> <<"air", "fire">>,
                 score_weight |-> Rat(10, 10) ]
          [] k = "study room" ->
               [ ideal_direction |-> "northeast",
                 alternative |-> <<"north", "east">>,
                 avoid |-> <<"southwest", "south">>,
                 reasoning |-> "Study room in northeast enhances concentration, learning, and wisdom.",
                 elements |-> <<"air", "space">>,
                 score_weight |-> Rat(11, 10) ]
          [] k = "store room" ->
               [ ideal_direction |-> "southwest",
                 alternative |-> <<"south", "west">>,
                 avoid |-> <<"northeast">>,
                 reasoning |-> "Store room should be in heavy zone (southwest) to maintain stability.",
                 elements |-> <<"earth">>,
                 score_weight |-> Rat(9, 10) ] ]

\* line 117: room_key = room_type.lower().replace(" ", "_")
room_key_of(room_type) == Replace(Lower(room_type), " ", "_")

\* lines 120-123: the for loop over VASTU_RULES.items(); None when it runs to
\* its else branch, otherwise the first key with  key in room_key or room_key in key
partial_match(room_key) ==
    LET hits == { i \in 1..Len(VASTU_RULE_KEYS) :
                    \/ Contains(VASTU_RULE_KEYS[i], room_key)
                    \/ Contains(room_key, VASTU_RULE_KEYS[i]) }
    IN IF hits = {} THEN None ELSE Some(VASTU_RULE_KEYS[Min(hits)])

\* lines 117-130: the key of the rule the call uses; None for the default rule
resolve_rule_key(room_type) ==
    LET room_key == room_key_of(room_type)
    IN IF room_key \in DOMAIN VASTU_RULES THEN Some(room_key) ELSE partial_match(room_key)

\* default_suggestions with the score of an unmatched rule (70) in place of 75
default_suggestions_score70 ==
    [ ideal_direction |-> "northeast",
      reasoning |-> "General room placement - consult Vastu expert for specific recommendations",
      score |-> 70 ]

\* lines 126-130
default_suggestions ==
    [ ideal_direction |-> "northeast",
      reasoning |-> "General room placement - consult Vastu expert for specific recommendations",
      score |-> 75 ]

\* line 133; current_zone is None or Some(string), and "" is falsy like None
score_of(rules, current_zone) ==
    IF /\ current_zone # None
       /\ Len(Value(current_zone)) > 0
       /\ Lower(Value(current_zone)) = rules.ideal_direction
    THEN 100 ELSE 70

\* lines 132-143: the dictionary built from the rule found
rule_suggestions(rules, current_zone) ==
    [ ideal_direction |-> rules.ideal_direction,
      alternative |-> rules.alternative,
      avoid |-> rules.avoid,
      reasoning |-> rules.reasoning,
      elements |-> rules.elements,
      score |-> score_of(rules, current_zone),
      weight |-> rules.score_weight ]

suggestions_for(key, current_zone) ==
    IF key = None THEN default_suggestions
    ELSE rule_suggestions(VASTU_RULES[Value(key)], current_zone)

get_vastu_suggestions(room_type, current_zone) ==
    suggestions_for(resolve_rule_key(room_type), current_zone)

\* What the HTTP exchange with a provider yields: requests.post timing out,
\* raise_for_status() raising on a non-2xx answer, or a 2xx answer whose
\* choices[0].message.content is absent (None) or a text.
AI_TEXTS ==
    { "", "Move the kitchen to the southeast.", "{\"predicted_score\": 85}", "see {zones}" }

ProviderOutcomes ==
    { [kind |-> "timeout"], [kind |-> "http_error"], [kind |-> "ok", content |-> None] }
      \cup { [kind |-> "ok", content |-> Some(t)] : t \in AI_TEXTS }

\* lines 150-177 and 184-212: the try block of a provider call
provider_result(outcome) == IF outcome.kind = "ok" THEN outcome.content ELSE None

\* lines 145-177; net maps each provider that can be reached to the outcome of
\* its HTTP exchange; [called, value]
call_azure_openai_gpt(enabled, net) ==
    IF ~enabled THEN [called |-> FALSE, value |-> None]
    ELSE [called |-> TRUE, value |-> provider_result(net["azure_openai"])]

\* lines 179-212
call_openai_gpt(enabled, net) ==
    IF ~enabled THEN [called |-> FALSE, value |-> None]
    ELSE [called |-> TRUE, value |-> provider_result(net["openai"])]

\* lines 253-258: which providers are called, and the ai_response they leave
try_ai_services(azure_enabled, openai_enabled, net) ==
    IF azure_enabled
    THEN [calls |-> <<"azure_openai">>,
          ai_response |-> call_azure_openai_gpt(azure_enabled, net).value]
    ELSE IF openai_enabled
    THEN [calls |-> <<"openai">>,
          ai_response |-> call_openai_gpt(openai_enabled, net).value]
    ELSE [calls |-> <<>>, ai_response |-> None]

\* the keys lines 270-275 subscript, in evaluation order
SUGGESTION_KEYS == << "ideal_direction", "alternative", "avoid", "reasoning", "score", "elements" >>

\* the first key whose subscript raises KeyError, or None
first_missing_key(d) ==
    LET miss == { i \in 1..Len(SUGGESTION_KEYS) : SUGGESTION_KEYS[i] \notin DOMAIN d }
    IN IF miss = {} THEN None ELSE Some(SUGGESTION_KEYS[Min(miss)])

\* lines 267-276: the entry appended, or the KeyError of the first missing key
suggestion_entry(room_name, room_zone, vastu_suggest, missing) ==
    IF missing # None
    THEN [raised |-> TRUE, error |-> "'" \o Value(missing) \o "'"]
    ELSE [raised |-> FALSE,
          value |-> [ room |-> room_name,
                      current_zone |-> room_zone,
                      ideal_zone |-> vastu_suggest.ideal_direction,
                      alternatives |-> vastu_suggest.alternative,
                      avoid |-> vastu_suggest.avoid,
                      reasoning |-> vastu_suggest.reasoning,
                      score |-> vastu_suggest.score,
                      elements |-> vastu_suggest.elements ]]

checked_entry(room_name, room_zone, vastu_suggest) ==
    suggestion_entry(room_name, room_zone, vastu_suggest, first_missing_key(vastu_suggest))

named_suggestion(room_name, room_zone) ==
    checked_entry(room_name, room_zone, get_vastu_suggestions(room_name, Some(room_zone)))

\* lines 263-276: one iteration of the loop over rooms
room_suggestion(room) == named_suggestion(Get(room, "name", ""), Get(room, "zone", ""))

\* str.find / str.rfind of a character that occurs in s (1-based)
Find(s, c) == Min({ i \in 1..Len(s) : SubSeq(s, i, i) = c })
RFind(s, c) == CHOOSE i \in 1..Len(s) :
                  /\ SubSeq(s, i, i) = c
                  /\ \A j \in (i + 1)..Len(s) : SubSeq(s, j, j) # c

\* json.loads on the texts the providers of this model return; None when it raises
json_loads(text) ==
    IF text = "{\"predicted_score\": 85}" THEN Some([predicted_score |-> 85]) ELSE None

\* lines 283-288
extract_json(text) ==
    IF Contains("{", text) /\ Contains("}", text)
    THEN json_loads(SubSeq(text, Find(text, "{"), RFind(text, "}")))
    ELSE None

\* lines 279-288
parse_ai_response(ai_response) ==
    IF ai_response = None \/ Len(Value(ai_response)) = 0 THEN None
    ELSE extract_json(Value(ai_response))

\* a non-empty text is truthy
Truthy(opt) == opt # None /\ Len(Value(opt)) > 0

\* lines 260-295: the loop over rooms and the returned dictionary; the outcome
\* carries the exception when one is raised
layout_result(calls, ai_response, per_room, bad) ==
    IF bad # {}
    THEN [raised |-> TRUE, calls |-> calls, error |-> per_room[Min(bad)].error]
    ELSE [raised |-> FALSE, calls |-> calls,
          value |-> [ suggestions |-> [i \in DOMAIN per_room |-> per_room[i].value],
                      ai_enhanced |-> IF Truthy(ai_response) THEN ai_response ELSE None,
                      ai_parsed |-> parse_ai_response(ai_response),
                      method |-> IF Truthy(ai_response) THEN "ai_enhanced" ELSE "rule_based" ]]

layout_of(ai, per_room) ==
    layout_result(ai.calls, ai.ai_response, per_room, { i \in DOMAIN per_room : per_room[i].raised })

rooms_layout(rooms, ai) == layout_of(ai, [i \in 1..Len(rooms) |-> room_suggestion(rooms[i])])

\* lines 214-295
generate_ai_layout_suggestions(data, azure_enabled, openai_enabled, net) ==
    rooms_layout(Get(data, "rooms", <<>>), try_ai_services(azure_enabled, openai_enabled, net))

\* lines 309-321: the response for the outcome of generate_ai_layout_suggestions
layout_response(r) ==
    IF r.raised
    THEN [calls |-> r.calls, http |-> [status |-> 500, success |-> FALSE, error |-> r.error]]
    ELSE [calls |-> r.calls, http |-> [status |-> 200, success |-> TRUE] @@ r.value]

\* lines 297-321; body is None when request.get_json() yields no object
suggest_layout(body, azure_enabled, openai_enabled, net) ==
    IF body = None
    THEN [calls |-> <<>>,
          http |-> [status |-> 500, success |-> FALSE,
                    error |-> "'NoneType' object has no attribute 'get'"]]
    ELSE layout_response(generate_ai_layout_suggestions(Value(body), azure_enabled,
                                                        openai_enabled, net))

\* a handler that passes a current zone along with the room type
get_vastu_rules_in_southeast(room_type) ==
    [status |-> 200, success |-> TRUE, room_type |-> room_type]
        @@ get_vastu_suggestions(room_type, Some("southeast"))

\* lines 323-331
get_vastu_rules(room_type) ==
    [status |-> 200, success |-> TRUE, room_type |-> room_type]
        @@ get_vastu_suggestions(room_type, None)


(***************************************************************************)
(* The suggester service: one request per behaviour, drawn in Init.        *)
(***************************************************************************)
RoomTypeInputs ==
    { VASTU_RULE_KEYS[i] : i \in 1..Len(VASTU_RULE_KEYS) }
      \cup { "Kitchen", "Master Bedroom", "TOILET", "Puja Room", "my cozy kitchen nook",
             "big living room", "kitchen bedroom", "treehouse", "garage", "room", "bed",
             "", "store_room", "Bath" }

ZONES == { "north", "northeast", "east", "southeast", "south", "southwest", "west",
           "northwest", "center" }

ZoneInputs == ZONES \cup { "SouthEast", "SOUTHWEST", "North East", "attic", "" }

LayoutRoomInputs ==
    { [name |-> n, zone |-> z] : n \in { "Kitchen", "treehouse", "Master Bedroom" },
                                 z \in { "southeast", "SouthWest" } }
      \cup { [name |-> "kitchen"], [zone |-> "northeast"] }

RECURSIVE SeqsUpTo(_, _)
SeqsUpTo(S, n) ==
    IF n = 0 THEN { <<>> }
    ELSE LET shorter == SeqsUpTo(S, n - 1)
         IN shorter \cup { Append(q, x) : q \in { t \in shorter : Len(t) = n - 1 }, x \in S }

LayoutBodies ==
    { None, Some(<<>>) } \cup { Some([rooms |-> rs]) : rs \in SeqsUpTo(LayoutRoomInputs, MaxRooms) }

EnabledProviders(azure_enabled, openai_enabled) ==
    (IF azure_enabled THEN { "azure_openai" } ELSE {})
      \cup (IF openai_enabled THEN { "openai" } ELSE {})

SuggesterRequests(azure_enabled, openai_enabled) ==
    { [op |-> "get_vastu_suggestions", room_type |-> t, current_zone |-> z] :
          t \in RoomTypeInputs, z \in { None } \cup { Some(x) : x \in ZoneInputs } }
      \cup { [op |-> "get_vastu_rules", room_type |-> t] : t \in RoomTypeInputs }
      \cup { [op |-> "suggest_layout", body |-> b, net |-> n] :
                 b \in LayoutBodies,
                 n \in [EnabledProviders(azure_enabled, openai_enabled) -> ProviderOutcomes] }

\* the tables of energy_heatmap_generator.py, lines 23-33
ELEMENTS == { "fire", "water", "earth", "air", "space" }

\* the keys of ENERGY_ZONES in declaration order
ENERGY_ZONE_KEYS ==
    << "northeast", "east", "southeast", "south", "southwest", "west", "northwest",
       "north", "center" >>

ENERGY_ZONES ==
    [ z \in { ENERGY_ZONE_KEYS[i] : i \in 1..Len(ENERGY_ZONE_KEYS) } |->
        CASE z = "northeast" -> [elements |-> <<"water", "space">>, strength |-> Rat(10, 10), color |-> "#4A90E2"]
          [] z = "east"      -> [elements |-> <<"air", "water">>, strength |-> Rat(9, 10), color |-> "#7ED321"]
          [] z = "southeast" -> [elements |-> <<"fire">>, strength |-> Rat(10, 10), color |-> "#F5A623"]
          [] z = "south"     -> [elements |-> <<"fire">>, strength |-> Rat(9, 10), color |-> "#D0021B"]
          [] z = "southwest" -> [elements |-> <<"earth">>, strength |-> Rat(10, 10), color |-> "#9013FE"]
          [] z = "west"      -> [elements |-> <<"air", "fire">>, strength |-> Rat(9, 10), color |-> "#50E3C2"]
          [] z = "northwest" -> [elements |-> <<"air">>, strength |-> Rat(10, 10), color |-> "#B8E986"]
          [] z = "north"     -> [elements |-> <<"water", "air">>, strength |-> Rat(9, 10), color |-> "#417505"]
          [] z = "center"    -> [elements |-> <<"space">>, strength |-> Rat(10, 10), color |-> "#BD10E0"] ]

\* the module-level tables as they are after import
TablesLoaded ==
    /\ rules_table = VASTU_RULES
    /\ zones_table = ENERGY_ZONES

\* no request is being handled by the blueprint, assistant and video services
ServicesIdle ==
    /\ HUGGINGFACE_ENABLED = FALSE
    /\ blueprint_pc = "idle"
    /\ blueprint_image = None
    /\ prompts_processed = <<>>
    /\ uploads = <<>>
    /\ video = <<>>

\* generate_complete_blueprint is not running
LayoutIdle ==
    /\ blueprint_args = [rooms |-> <<>>, plot_width |-> 0, plot_height |-> 0]
    /\ layout_pc = "idle"
    /\ layout_idx = 0
    /\ room_layouts = <<>>
    /\ used_zones = {}

\* no request is being handled by the energy service
EnergyIdle ==
    /\ space_data = <<>>
    /\ pc = "idle"
    /\ room_idx = 0
    /\ zone_energy = <<>>
    /\ element_balance = <<>>

InitSuggester ==
    /\ AZURE_OPENAI_ENABLED \in BOOLEAN
    /\ OPENAI_ENABLED \in BOOLEAN
    /\ request \in SuggesterRequests(AZURE_OPENAI_ENABLED, OPENAI_ENABLED)
    /\ provider_calls = <<>>
    /\ response = None
    /\ EnergyIdle
    /\ ServicesIdle
    /\ TablesLoaded
    /\ LayoutIdle

\* a direct call of get_vastu_suggestions
GetVastuSuggestions ==
    /\ response = None
    /\ request.op = "get_vastu_suggestions"
    /\ response' = Some(get_vastu_suggestions(request.room_type, request.current_zone))
    /\ UNCHANGED <<AZURE_OPENAI_ENABLED, OPENAI_ENABLED, request, provider_calls, energy_vars, service_vars, table_vars, layout_vars>>

\* GET /vastu_rules/<room_type>
GetVastuRules ==
    /\ response = None
    /\ request.op = "get_vastu_rules"
    /\ response' = Some(get_vastu_rules(request.room_type))
    /\ UNCHANGED <<AZURE_OPENAI_ENABLED, OPENAI_ENABLED, request, provider_calls, energy_vars, service_vars, table_vars, layout_vars>>

Responded(r) ==
    /\ response' = Some(r.http)
    /\ provider_calls' = r.calls

\* POST /suggest_layout
SuggestLayout ==
    /\ response = None
    /\ request.op = "suggest_layout"
    /\ Responded(suggest_layout(request.body, AZURE_OPENAI_ENABLED, OPENAI_ENABLED, request.net))
    /\ UNCHANGED <<AZURE_OPENAI_ENABLED, OPENAI_ENABLED, request, energy_vars, service_vars, table_vars, layout_vars>>

NextSuggester == GetVastuSuggestions \/ GetVastuRules \/ SuggestLayout

SpecSuggester == InitSuggester /\ [][NextSuggester]_vars


(***************************************************************************)
(* energy_heatmap_generator.py                                             *)
(***************************************************************************)
\* the natural elements of a zone, as a set
natural_elements(zone) ==
    { ENERGY_ZONES[zone].elements[i] : i \in 1..Len(ENERGY_ZONES[zone].elements) }

\* lines 51-60
initial_zone_energy == [z \in DOMAIN ENERGY_ZONES |-> [e \in ELEMENTS |-> RZero]]

\* the keys of vastu_optimal_placements in declaration order
PLACEMENT_KEYS ==
    << "kitchen", "southeast", "bathroom", "toilet", "northwest", "bedroom",
       "master bedroom", "southwest", "living room", "hall", "dining room", "study room",
       "puja room", "prayer room", "northeast", "store room", "center" >>

vastu_optimal_placements ==
    [ k \in { PLACEMENT_KEYS[i] : i \in 1..Len(PLACEMENT_KEYS) } |->
        CASE k = "kitchen"        -> [zone |-> "southeast", element |-> "fire", score |-> Rat(10, 10)]
          [] k = "southeast"      -> [element |-> "fire", base_energy |-> Rat(8, 10)]
          [] k = "bathroom"       -> [zone |-> "northwest", element |-> "water", score |-> Rat(10, 10)]
          [] k = "toilet"         -> [zone |-> "northwest", element |-> "water", score |-> Rat(10, 10)]
          [] k = "northwest"      -> [element |-> "water", base_energy |-> Rat(6, 10)]
          [] k = "bedroom"        -> [zone |-> "southwest", element |-> "earth", score |-> Rat(10, 10)]
          [] k = "master bedroom" -> [zone |-> "southwest", element |-> "earth", score |-> Rat(10, 10)]
          [] k = "southwest"      -> [element |-> "earth", base_energy |-> Rat(8, 10)]
          [] k = "living room"    -> [zone |-> "northeast", element |-> "air", score |-> Rat(9, 10)]
          [] k = "hall"           -> [zone |-> "northeast", element |-> "air", score |-> Rat(9, 10)]
          [] k = "dining room"    -> [zone |-> "west", element |-> "air", score |-> Rat(8, 10)]
          [] k = "study room"     -> [zone |-> "northeast", element |-> "air", score |-> Rat(85, 100)]
          [] k = "puja room"      -> [zone |-> "northeast", element |-> "space", score |-> Rat(10, 10)]
          [] k = "prayer room"    -> [zone |-> "northeast", element |-> "space", score |-> Rat(10, 10)]
          [] k = "northeast"      -> [element |-> "space", base_energy |-> Rat(9, 10)]
          [] k = "store room"     -> [zone |-> "southwest", element |-> "earth", score |-> Rat(8, 10)]
          [] k = "center"         -> [element |-> "space", base_energy |-> Rat(7, 10)] ]

\* lines 97-102: the index of the entry at which the loop breaks, 0 when it ends
placement_match(room_name, room_zone) ==
    LET hits == { i \in 1..Len(PLACEMENT_KEYS) :
                    \/ Contains(PLACEMENT_KEYS[i], room_name)
                    \/ PLACEMENT_KEYS[i] = room_zone }
    IN IF hits = {} THEN 0 ELSE Min(hits)

\* lines 99-101
placement_of(placement_info, room_zone) ==
    [ optimal_zone |-> Some(Get(placement_info, "zone", room_zone)),
      room_element |-> placement_info.element,
      compliance_score |-> Get(placement_info, "score", Rat(5, 10)) ]

\* lines 105-128: the classification by keywords of the name
keyword_placement(room_name, room_zone) ==
    IF Contains("kitchen", room_name) \/ Contains("cook", room_name)
    THEN [ optimal_zone |-> Some("southeast"), room_element |-> "fire",
           compliance_score |-> IF room_zone = "southeast" THEN Rat(10, 10) ELSE Rat(3, 10) ]
    ELSE IF Contains("bath", room_name) \/ Contains("toilet", room_name) \/ Contains("wc", room_name)
    THEN [ optimal_zone |-> Some("northwest"), room_element |-> "water",
           compliance_score |-> IF room_zone = "northwest" THEN Rat(10, 10) ELSE Rat(3, 10) ]
    ELSE IF Contains("bed", room_name) \/ Contains("master", room_name)
    THEN [ optimal_zone |-> Some("southwest"), room_element |-> "earth",
           compliance_score |-> IF room_zone = "southwest" THEN Rat(10, 10) ELSE Rat(3, 10) ]
    ELSE IF Contains("living", room_name) \/ Contains("hall", room_name) \/ Contains("drawing", room_name)
    THEN [ optimal_zone |-> Some("northeast"), room_element |-> "air",
           compliance_score |-> IF room_zone = "northeast" THEN Rat(9, 10) ELSE Rat(4, 10) ]
    ELSE IF Contains("puja", room_name) \/ Contains("prayer", room_name) \/ Contains("temple", room_name)
    THEN [ optimal_zone |-> Some("northeast"), room_element |-> "space",
           compliance_score |-> IF room_zone = "northeast" THEN Rat(10, 10) ELSE Rat(2, 10) ]
    ELSE [ optimal_zone |-> None, room_element |-> "air", compliance_score |-> Rat(5, 10) ]

placement_at(idx, room_name, room_zone) ==
    IF idx = 0 THEN keyword_placement(room_name, room_zone)
    ELSE placement_of(vastu_optimal_placements[PLACEMENT_KEYS[idx]], room_zone)

\* lines 92-128: optimal_zone, room_element and compliance_score of a room
room_placement(room_name, room_zone) ==
    placement_at(placement_match(room_name, room_zone), room_name, room_zone)

\* the constants of lines 139, 144 and 145
AFFINITY_FACTOR == Rat(2, 10)
IDEAL_ZONE_BONUS == Rat(1, 10)
WRONG_PLACEMENT_FACTOR == Rat(7, 10)

\* add_contribution without the test  zone_element != room_element : the
\* affinity is added to every natural element of the zone
add_contribution_all_natural(ze, room_zone, room_element, compliance_score) ==
    [ ze EXCEPT ![room_zone] =
        [ e \in ELEMENTS |->
            RAdd(RAdd(ze[room_zone][e], IF e = room_element THEN compliance_score ELSE RZero),
                 IF e \in natural_elements(room_zone)
                 THEN RMul(AFFINITY_FACTOR, compliance_score) ELSE RZero) ] ]

\* lines 133-139: the primary element and the zone's natural element affinity
add_contribution(ze, room_zone, room_element, compliance_score) ==
    [ ze EXCEPT ![room_zone] =
        [ e \in ELEMENTS |->
            IF e = room_element THEN RAdd(ze[room_zone][e], compliance_score)
            ELSE IF e \in natural_elements(room_zone)
            THEN RAdd(ze[room_zone][e], RMul(AFFINITY_FACTOR, compliance_score))
            ELSE ze[room_zone][e] ] ]

\* wrong_placement with the two cells exchanged: the bonus goes to the assigned
\* zone and the factor to the ideal zone
wrong_placement_swapped(ze, room_zone, room_element, optimal_zone) ==
    IF optimal_zone # None /\ Value(optimal_zone) # room_zone
    THEN [ [ ze EXCEPT ![room_zone][room_element] = RAdd(@, IDEAL_ZONE_BONUS) ]
              EXCEPT ![Value(optimal_zone)][room_element] = RMul(@, WRONG_PLACEMENT_FACTOR) ]
    ELSE ze

\* lines 142-145
wrong_placement(ze, room_zone, room_element, optimal_zone) ==
    IF optimal_zone # None /\ Value(optimal_zone) # room_zone
    THEN [ [ ze EXCEPT ![Value(optimal_zone)][room_element] = RAdd(@, IDEAL_ZONE_BONUS) ]
              EXCEPT ![room_zone][room_element] = RMul(@, WRONG_PLACEMENT_FACTOR) ]
    ELSE ze

\* contribute with the factor applied to the score before it is added, so that
\* what the cell held before is not reduced
contribute_scaled_first(ze, room_zone, p) ==
    IF p.optimal_zone # None /\ Value(p.optimal_zone) # room_zone
    THEN [ add_contribution(ze, room_zone, p.room_element, p.compliance_score)
             EXCEPT ![room_zone][p.room_element] =
                        RAdd(ze[room_zone][p.room_element],
                             RMul(p.compliance_score, WRONG_PLACEMENT_FACTOR)),
                    ![Value(p.optimal_zone)][p.room_element] = RAdd(@, IDEAL_ZONE_BONUS) ]
    ELSE add_contribution(ze, room_zone, p.room_element, p.compliance_score)

\* lines 130-145
contribute(ze, room_zone, p) ==
    wrong_placement(add_contribution(ze, room_zone, p.room_element, p.compliance_score),
                    room_zone, p.room_element, p.optimal_zone)

\* process_named with a room of unknown zone counted in the center instead of
\* skipped
process_named_unskipped(ze, room_name, room_zone) ==
    IF room_zone \notin DOMAIN ze
    THEN contribute(ze, "center", room_placement(room_name, "center"))
    ELSE contribute(ze, room_zone, room_placement(room_name, room_zone))

\* lines 86-145: one iteration of the loop over rooms
process_named(ze, room_name, room_zone) ==
    IF room_zone \notin DOMAIN ze THEN ze
    ELSE contribute(ze, room_zone, room_placement(room_name, room_zone))

\* process_room without lower-casing the room name
process_room_name_as_given(ze, room) ==
    process_named(ze, Get(room, "name", ""), Lower(Get(room, "zone", "")))

process_room(ze, room) ==
    process_named(ze, Lower(Get(room, "name", "")), Lower(Get(room, "zone", "")))


\* lines 148-157: zone -> boost, for the orientation keys of the table
orientation_benefits ==
    [ o \in { "north-facing", "northeast-facing", "east-facing", "southeast-facing",
              "south-facing", "southwest-facing", "west-facing", "northwest-facing" } |->
        CASE o = "north-facing" ->
               ("north" :> Rat(3, 10)) @@ ("northeast" :> Rat(4, 10)) @@ ("northwest" :> Rat(2, 10))
          [] o = "northeast-facing" ->
               ("northeast" :> Rat(5, 10)) @@ ("north" :> Rat(3, 10)) @@ ("east" :> Rat(3, 10))
          [] o = "east-facing" ->
               ("east" :> Rat(4, 10)) @@ ("northeast" :> Rat(3, 10)) @@ ("southeast" :> Rat(2, 10))
          [] o = "southeast-facing" ->
               ("southeast" :> Rat(4, 10)) @@ ("east" :> Rat(3, 10))
          [] o = "south-facing" ->
               ("south" :> Rat(3, 10)) @@ ("southeast" :> Rat(3, 10)) @@ ("southwest" :> Rat(2, 10))
          [] o = "southwest-facing" ->
               ("southwest" :> Rat(4, 10)) @@ ("south" :> Rat(3, 10))
          [] o = "west-facing" ->
               ("west" :> Rat(3, 10)) @@ ("northwest" :> Rat(3, 10)) @@ ("southwest" :> Rat(2, 10))
          [] o = "northwest-facing" ->
               ("northwest" :> Rat(4, 10)) @@ ("north" :> Rat(2, 10)) @@ ("west" :> Rat(2, 10)) ]

\* orient_key_of without lower-casing
orient_key_of_no_lower(orientation) == Replace(orientation, " ", "-")

\* line 159
orient_key_of(orientation) == Replace(Lower(orientation), " ", "-")

\* boost_zones with the boost given to all five elements of a listed zone
boost_zones_every_element(ze, benefits) ==
    [ z \in DOMAIN ze |->
        [ e \in ELEMENTS |->
            IF z \in DOMAIN benefits THEN RAdd(ze[z][e], benefits[z]) ELSE ze[z][e] ] ]

\* lines 161-166
boost_zones(ze, benefits) ==
    [ z \in DOMAIN ze |->
        [ e \in ELEMENTS |->
            IF z \in DOMAIN benefits /\ e \in natural_elements(z)
            THEN RAdd(ze[z][e], benefits[z]) ELSE ze[z][e] ] ]

\* lines 159-166
apply_orientation(ze, orient_key) ==
    IF orient_key \in DOMAIN orientation_benefits
    THEN boost_zones(ze, orientation_benefits[orient_key])
    ELSE ze

\* line 169
has_center_room(rooms) ==
    \E i \in 1..Len(rooms) : Contains("center", Lower(Get(rooms[i], "zone", "")))

CENTER_PENALTY == Rat(5, 10)

\* center_penalty applied once per room in the center instead of once
RECURSIVE center_penalty_per_room(_, _)
center_penalty_per_room(ze, rooms) ==
    IF Len(rooms) = 0 THEN ze
    ELSE IF Contains("center", Lower(Get(Head(rooms), "zone", "")))
    THEN center_penalty_per_room([ ze EXCEPT !["center"]["space"] = RMul(@, CENTER_PENALTY) ],
                                 Tail(rooms))
    ELSE center_penalty_per_room(ze, Tail(rooms))

\* lines 170-171
center_penalty(ze, rooms) ==
    IF has_center_room(rooms)
    THEN [ ze EXCEPT !["center"]["space"] = RMul(@, CENTER_PENALTY) ]
    ELSE ze

\* lines 174-177: the largest cell, starting from 0
RECURSIVE max_over(_, _)
max_over(cells, acc) ==
    IF cells = {} THEN acc
    ELSE LET c == CHOOSE x \in cells : TRUE
         IN max_over(cells \ { c }, RMax(acc, c))

\* max_energy_of with the running maximum starting at 1 instead of 0
max_energy_of_from_one(ze) == max_over({ ze[z][e] : z \in DOMAIN ze, e \in ELEMENTS }, ROne)

max_energy_of(ze) == max_over({ ze[z][e] : z \in DOMAIN ze, e \in ELEMENTS }, RZero)

\* line 182
scale_by(ze, max_energy) ==
    [ z \in DOMAIN ze |-> [ e \in ELEMENTS |-> RMin(ROne, RDiv(ze[z][e], max_energy)) ] ]

\* lines 179-182
normalize_by(ze, max_energy) == IF RLess(RZero, max_energy) THEN scale_by(ze, max_energy) ELSE ze

\* lines 174-182
normalize(ze) == normalize_by(ze, max_energy_of(ze))

\* lines 364-366: the sum of one element over the zones
RECURSIVE element_total(_, _, _)
element_total(ze, e, n) ==
    IF n = 0 THEN RZero
    ELSE RAdd(element_total(ze, e, n - 1), ze[ENERGY_ZONE_KEYS[n]][e])

element_totals(ze) == [ e \in ELEMENTS |-> element_total(ze, e, Len(ENERGY_ZONE_KEYS)) ]

\* line 369
total_of(balance) ==
    RAdd(balance["fire"], RAdd(balance["water"], RAdd(balance["earth"],
         RAdd(balance["air"], balance["space"]))))

\* a normalization that forgets to divide
balance_by_undivided(balance, total) == balance

\* lines 370-372
balance_by(balance, total) ==
    IF RLess(RZero, total) THEN [ e \in ELEMENTS |-> RDiv(balance[e], total) ] ELSE balance

balance_of(balance) == balance_by(balance, total_of(balance))

\* lines 356-372
calculate_element_balance(ze) == balance_of(element_totals(ze))


(***************************************************************************)
(* POST /calculate_energy: one request per behaviour, drawn in Init; the   *)
(* actions are the successive blocks of calculate_zone_energy and of the   *)
(* endpoint.                                                               *)
(***************************************************************************)
EnergyRoomInputs ==
    { [name |-> "Kitchen", zone |-> "southeast"],
      [name |-> "Kitchen", zone |-> "northwest"],
      [name |-> "Kitchen", zone |-> "Center"],
      [name |-> "puja room", zone |-> "Center"],
      [name |-> "puja room", zone |-> "northeast"],
      [name |-> "puja room", zone |-> "near center"],
      [name |-> "office", zone |-> "center"],
      [name |-> "office", zone |-> "north"],
      [name |-> "cook area", zone |-> "north"],
      [name |-> "Master Bedroom", zone |-> "northwest"],
      [name |-> "Master Bedroom", zone |-> "north"],
      [name |-> "Kitchen"],
      [zone |-> "center"] }

OrientationInputs == { "north-facing", "North Facing", "south-facing", "sideways" }

EnergyBodies ==
    { [rooms |-> rs, orientation |-> o] :
          rs \in SeqsUpTo(EnergyRoomInputs, MaxRooms), o \in OrientationInputs }
      \cup { [rooms |-> rs] : rs \in SeqsUpTo(EnergyRoomInputs, MaxRooms) }
      \cup { [orientation |-> o] : o \in OrientationInputs }
      \cup { <<>> }

\* line 47
rooms_of(data) == Get(data, "rooms", <<>>)

\* an orientation that defaults to the empty string
orientation_of_unset(data) == Get(data, "orientation", "")

\* line 48
orientation_of(data) == Get(data, "orientation", "north-facing")

\* no request is being handled by the suggester service
SuggesterIdle ==
    /\ AZURE_OPENAI_ENABLED = FALSE
    /\ OPENAI_ENABLED = FALSE
    /\ request = [op |-> "none"]
    /\ provider_calls = <<>>
    /\ response = None

InitEnergy ==
    /\ space_data \in EnergyBodies
    /\ pc = "start"
    /\ room_idx = 0
    /\ zone_energy = <<>>
    /\ element_balance = <<>>
    /\ SuggesterIdle
    /\ ServicesIdle
    /\ TablesLoaded
    /\ LayoutIdle

\* lines 47-60
InitZoneEnergy ==
    /\ pc = "start"
    /\ zone_energy' = initial_zone_energy
    /\ pc' = "rooms"
    /\ UNCHANGED <<space_data, room_idx, element_balance, suggester_vars, service_vars, table_vars, layout_vars>>

\* lines 85-145: one iteration of  for room in rooms
ProcessRoom ==
    /\ pc = "rooms"
    /\ room_idx < Len(rooms_of(space_data))
    /\ zone_energy' = process_room(zone_energy, rooms_of(space_data)[room_idx + 1])
    /\ room_idx' = room_idx + 1
    /\ UNCHANGED <<space_data, pc, element_balance, suggester_vars, service_vars, table_vars, layout_vars>>

\* lines 147-166, once the loop has ended
ApplyOrientation ==
    /\ pc = "rooms"
    /\ room_idx = Len(rooms_of(space_data))
    /\ zone_energy' = apply_orientation(zone_energy, orient_key_of(orientation_of(space_data)))
    /\ pc' = "center"
    /\ UNCHANGED <<space_data, room_idx, element_balance, suggester_vars, service_vars, table_vars, layout_vars>>

\* lines 168-171
CenterPenalty ==
    /\ pc = "center"
    /\ zone_energy' = center_penalty(zone_energy, rooms_of(space_data))
    /\ pc' = "normalize"
    /\ UNCHANGED <<space_data, room_idx, element_balance, suggester_vars, service_vars, table_vars, layout_vars>>

\* lines 173-184
Normalize ==
    /\ pc = "normalize"
    /\ zone_energy' = normalize(zone_energy)
    /\ pc' = "returned"
    /\ UNCHANGED <<space_data, room_idx, element_balance, suggester_vars, service_vars, table_vars, layout_vars>>

\* lines 355-378 of calculate_energy
ElementBalance ==
    /\ pc = "returned"
    /\ element_balance' = calculate_element_balance(zone_energy)
    /\ pc' = "done"
    /\ UNCHANGED <<space_data, room_idx, zone_energy, suggester_vars, service_vars, table_vars, layout_vars>>

NextEnergy ==
    \/ InitZoneEnergy
    \/ ProcessRoom
    \/ ApplyOrientation
    \/ CenterPenalty
    \/ Normalize
    \/ ElementBalance

SpecEnergy == InitEnergy /\ [][NextEnergy]_vars


(***************************************************************************)
(* Claims about the suggester, checked under SpecSuggester                 *)
(***************************************************************************)
IsLookup == request.op = "get_vastu_suggestions"

\* C3: for every key of VASTU_RULES used as the room name and every zone,
\* get_vastu_suggestions returns score 100 if and only if the zone equals that
\* rule's ideal direction case-insensitively, and 70 otherwise.
C3_ScoreByIdealZone ==
    \A r \in response :
        ( /\ IsLookup
          /\ request.room_type \in DOMAIN VASTU_RULES
          /\ request.current_zone # None )
        => r.score = IF Lower(Value(request.current_zone))
                           = VASTU_RULES[request.room_type].ideal_direction
                      THEN 100 ELSE 70

\* C4: an input that equals a table key after lower-casing resolves to that
\* key's own rule (its reasoning and weight), e.g. "Master Bedroom" to the
\* 'master bedroom' rule of weight 1.5.
C4_ExactMatchFirst ==
    \A r \in response :
        (IsLookup /\ Lower(request.room_type) \in DOMAIN VASTU_RULES)
        => /\ "weight" \in DOMAIN r
           /\ r.weight = VASTU_RULES[Lower(request.room_type)].score_weight
           /\ r.reasoning = VASTU_RULES[Lower(request.room_type)].reasoning

\* C5: every input that contains a table key as a substring after lower-casing
\* resolves to a rule of the table, never to the default rule, and
\* "my cozy kitchen nook" resolves to the 'kitchen' rule.
C5_ContainmentResolves ==
    \A r \in response :
        ( /\ IsLookup
          /\ \E k \in DOMAIN VASTU_RULES : Contains(k, Lower(request.room_type)) )
        => /\ "weight" \in DOMAIN r
           /\ \E k \in DOMAIN VASTU_RULES : r.reasoning = VASTU_RULES[k].reasoning
           /\ request.room_type = "my cozy kitchen nook"
                  => r.reasoning = VASTU_RULES["kitchen"].reasoning

\* the input matches no table entry, neither exactly nor by containment
NoTableMatch(room_type) ==
    /\ Lower(room_type) \notin DOMAIN VASTU_RULES
    /\ \A k \in DOMAIN VASTU_RULES :
          ~Contains(k, Lower(room_type)) /\ ~Contains(Lower(room_type), k)

\* C6: for an input that matches no table entry, get_vastu_suggestions returns
\* (without raising) the default rule: ideal direction 'northeast' and score 75,
\* whatever the current zone is.
C6_DefaultRule ==
    \A r \in response :
        (IsLookup /\ NoTableMatch(request.room_type))
        => /\ r.ideal_direction = "northeast"
           /\ r.score = 75
           /\ "weight" \notin DOMAIN r

C6_Witness ==
    /\ IsLookup
    /\ request.room_type = "treehouse"
    /\ request.current_zone = Some("northeast")
    /\ response # None
    /\ \A r \in response : r.score = 75

IsLayout == request.op = "suggest_layout"

SUGGESTION_FIELDS ==
    { "room", "current_zone", "ideal_zone", "alternatives", "avoid", "reasoning", "score",
      "elements" }

\* C7: POST /suggest_layout answers success with one suggestion per input room,
\* each carrying the eight suggestion fields, for every room list, rooms of
\* unknown type included.
C7_LayoutAlwaysSucceeds ==
    \A r \in response :
        (IsLayout /\ request.body # None)
        => /\ r.status = 200
           /\ r.success
           /\ Len(r.suggestions) = Len(rooms_of(Value(request.body)))
           /\ \A i \in 1..Len(r.suggestions) : SUGGESTION_FIELDS \subseteq DOMAIN r.suggestions[i]

(***************************************************************************)
(* Claims about calculate_zone_energy, checked under SpecEnergy            *)
(***************************************************************************)
Cells(ze) == { ze[z][e] : z \in DOMAIN ze, e \in ELEMENTS }

\* C1: normalization leaves every cell in [0,1], and whenever a cell was positive
\* before normalization the maximum cell of the returned map is exactly 1.
C1_NormalizedRange ==
    [][ pc = "normalize" =>
          /\ \A c \in Cells(zone_energy') : RLeq(RZero, c) /\ RLeq(c, ROne)
          /\ (\E c \in Cells(zone_energy) : RLess(RZero, c))
                => \E c \in Cells(zone_energy') : c = ROne ]_vars

C1_Witness ==
    /\ pc = "returned"
    /\ Len(rooms_of(space_data)) = MaxRooms
    /\ \E c \in Cells(zone_energy) : c = ROne
    /\ \E c \in Cells(zone_energy) : RLess(RZero, c) /\ RLess(c, ROne)

EmptyRooms == Len(rooms_of(space_data)) = 0

\* C2 as stated: with an empty room list the returned map is all zero, for every
\* orientation, a missing one included.
C2_EmptyRoomsAllZero ==
    (pc = "returned" /\ EmptyRooms) => \A c \in Cells(zone_energy) : c = RZero

\* the orientation of the request, 'north-facing' when the key is missing
RequestedOrientation ==
    IF "orientation" \in DOMAIN space_data THEN space_data.orientation ELSE "north-facing"

\* the zones the requested orientation boosts; none when it is not recognized
BoostedZones ==
    LET k == Replace(Lower(RequestedOrientation), " ", "-")
    IN IF k \in DOMAIN orientation_benefits THEN DOMAIN orientation_benefits[k] ELSE {}

\* C2 (amended): with an empty room list the returned map is all zero only for
\* an orientation that is not recognized; for a recognized orientation, a missing
\* one included (it defaults to 'north-facing'), exactly the natural-element
\* cells of the zones that orientation boosts are non-zero.
C2_EmptyRoomsOrientationOnly ==
    (pc = "returned" /\ EmptyRooms)
    => \A z \in DOMAIN zone_energy : \A e \in ELEMENTS :
          (zone_energy[z][e] # RZero)
              <=> (z \in BoostedZones /\ \E i \in 1..Len(ENERGY_ZONES[z].elements) :
                                            ENERGY_ZONES[z].elements[i] = e)

C2_Witness ==
    /\ pc = "returned"
    /\ EmptyRooms
    /\ "orientation" \notin DOMAIN space_data
    /\ zone_energy["northeast"]["water"] = ROne
    /\ zone_energy["southeast"]["fire"] = RZero

\* some room of the input is assigned to the zone 'center'
RoomInCenter ==
    \E i \in 1..Len(rooms_of(space_data)) :
        /\ "zone" \in DOMAIN rooms_of(space_data)[i]
        /\ Lower(rooms_of(space_data)[i].zone) = "center"

\* C8: the center penalty leaves center/space at exactly half of its value after
\* the room and orientation contributions when some room is in the center,
\* however many there are, and unchanged when none is.
C8_CenterHalvedOnce ==
    [][ pc = "center" =>
          IF RoomInCenter
          THEN /\ 2 * zone_energy'["center"]["space"][1] * zone_energy["center"]["space"][2]
                    = zone_energy["center"]["space"][1] * zone_energy'["center"]["space"][2]
          ELSE zone_energy'["center"]["space"] = zone_energy["center"]["space"] ]_vars

C8_Witness ==
    /\ pc = "normalize"
    /\ Len(rooms_of(space_data)) = 2
    /\ \A i \in 1..2 : Get(rooms_of(space_data)[i], "zone", "") = "Center"
    /\ RLess(RZero, zone_energy["center"]["space"])

KitchenIn(zone) == << [name |-> "Kitchen", zone |-> zone] >>

\* C9: for the single room Kitchen in southeast with orientation 'north-facing',
\* southeast/fire is 1.0 and strictly above every other cell, and fire is
\* strictly the largest share of element_balance.
C9_KitchenSoutheastDominates ==
    ( /\ pc \in { "returned", "done" }
      /\ space_data = [rooms |-> KitchenIn("southeast"), orientation |-> "north-facing"] )
    => /\ zone_energy["southeast"]["fire"] = ROne
       /\ \A z \in DOMAIN zone_energy : \A e \in ELEMENTS :
             (z # "southeast" \/ e # "fire") => RLess(zone_energy[z][e], ROne)
       /\ pc = "done" =>
             \A e \in ELEMENTS \ { "fire" } : RLess(element_balance[e], element_balance["fire"])

C9_Witness ==
    /\ pc = "done"
    /\ space_data = [rooms |-> KitchenIn("southeast"), orientation |-> "north-facing"]
    /\ RLess(RZero, element_balance["water"])

\* the loop over a single room has ended and nothing else has run yet
AfterSingleRoom == pc = "rooms" /\ room_idx = 1 /\ Len(rooms_of(space_data)) = 1

ShareSum(balance) ==
    RAdd(balance["fire"], RAdd(balance["water"], RAdd(balance["earth"],
         RAdd(balance["air"], balance["space"]))))

SomeEnergyPositive == \E c \in Cells(zone_energy) : RLess(RZero, c)

CallFailed(outcome) == outcome.kind \in { "timeout", "http_error" }

\* C15: when Azure OpenAI is enabled and its call fails while OpenAI is enabled,
\* the suggester calls OpenAI next, before it falls back to rule-based output.
C15_FallsThroughToOpenAI ==
    (/\ IsLayout /\ request.body # None /\ response # None
     /\ AZURE_OPENAI_ENABLED /\ OPENAI_ENABLED
     /\ CallFailed(request.net["azure_openai"]))
    => provider_calls = << "azure_openai", "openai" >>

\* a provider that was called and answered with non-empty text
YieldedText ==
    \E i \in 1..Len(provider_calls) :
        /\ request.net[provider_calls[i]].kind = "ok"
        /\ Truthy(request.net[provider_calls[i]].content)

\* the suggestions the same rooms get when no provider is enabled
RuleBasedOnly == generate_ai_layout_suggestions(Value(request.body), FALSE, FALSE, <<>>)

\* C16: POST /suggest_layout never fails because of the providers: without
\* provider text the response is success with method 'rule_based' and
\* ai_enhanced null, method is 'ai_enhanced' exactly when a provider returned
\* non-empty text, and the suggestions list is the rule-based one either way.
C16_ProviderFailureHarmless ==
    \A r \in response :
        (IsLayout /\ request.body # None)
        => /\ r.status = 200 /\ r.success
           /\ r.method = (IF YieldedText THEN "ai_enhanced" ELSE "rule_based")
           /\ ~YieldedText => r.ai_enhanced = None
           /\ r.suggestions = RuleBasedOnly.value.suggestions


(***************************************************************************)
(* The endpoints of energy_heatmap_generator.py                            *)
(***************************************************************************)
\* the response of the  except Exception as e  branch of an endpoint
error_response(message) == [status |-> 500, success |-> FALSE, error |-> message]

\* str(e) of the AttributeError raised by  data.get  when get_json() gave None
NONE_HAS_NO_GET == "'NoneType' object has no attribute 'get'"

\* lines 85-145: the loop  for room in rooms
RECURSIVE process_rooms(_, _, _)
process_rooms(ze, rooms, n) ==
    IF n = 0 THEN ze ELSE process_room(process_rooms(ze, rooms, n - 1), rooms[n])

\* lines 51-184 for the rooms and the orientation read at lines 47-48
zone_energy_of(rooms, orientation) ==
    normalize(center_penalty(apply_orientation(process_rooms(initial_zone_energy, rooms,
                                                             Len(rooms)),
                                               orient_key_of(orientation)),
                             rooms))

\* lines 44-184
calculate_zone_energy(data) == zone_energy_of(rooms_of(data), orientation_of(data))

\* lines 374-378
energy_response(ze) ==
    [status |-> 200, success |-> TRUE, zone_energy |-> ze,
     element_balance |-> calculate_element_balance(ze)]

\* lines 345-385; body is None when request.get_json() yields no object
calculate_energy(body) ==
    IF body = None THEN error_response(NONE_HAS_NO_GET)
    ELSE energy_response(calculate_zone_energy(Value(body)))

\* the element keys of a zone's dictionary in insertion order (lines 54-60)
ELEMENT_ORDER == << "fire", "water", "earth", "air", "space" >>

\* lines 211-213: max(energies.items(), key=lambda x: x[1]) keeps the first maximum
dominant_at(energies, i) ==
    \A j \in 1..Len(ELEMENT_ORDER) :
        /\ RLeq(energies[ELEMENT_ORDER[j]], energies[ELEMENT_ORDER[i]])
        /\ j < i => RLess(energies[ELEMENT_ORDER[j]], energies[ELEMENT_ORDER[i]])

dominant_element(energies) ==
    ELEMENT_ORDER[CHOOSE i \in 1..Len(ELEMENT_ORDER) : dominant_at(energies, i)]

\* lines 205-262: what each cell of the grid shows
heatmap_cells(ze, element) ==
    IF element = "all"
    THEN [ z \in DOMAIN ze |-> << dominant_element(ze[z]), ze[z][dominant_element(ze[z])] >> ]
    ELSE [ z \in DOMAIN ze |-> << element, Get(ze[z], element, RZero) >> ]

\* line 271: room_name[:10]
first_ten(s) == IF Len(s) <= 10 THEN s ELSE SubSeq(s, 1, 10)

\* lines 265-273: the room labels, for the rooms whose zone is on the grid
room_label(room) ==
    IF Lower(Get(room, "zone", "")) \in DOMAIN initial_zone_energy
    THEN << << Lower(Get(room, "zone", "")), first_ten(Get(room, "name", "")) >> >>
    ELSE << >>

RECURSIVE room_labels(_, _)
room_labels(rooms, n) ==
    IF n = 0 THEN << >> ELSE room_labels(rooms, n - 1) \o room_label(rooms[n])

\* lines 186-310: the picture, as the cells and labels it draws
generate_energy_heatmap(data, element) ==
    [cells |-> heatmap_cells(calculate_zone_energy(data), element),
     labels |-> room_labels(rooms_of(data), Len(rooms_of(data)))]

\* lines 329-335
heatmap_response(data, element) ==
    [status |-> 200, success |-> TRUE, heatmap |-> generate_energy_heatmap(data, element),
     zone_energy |-> calculate_zone_energy(data), element |-> element]

\* lines 312-343
generate_heatmap(body) ==
    IF body = None THEN error_response(NONE_HAS_NO_GET)
    ELSE heatmap_response(Value(body), Get(Value(body), "element", "all"))


(***************************************************************************)
(* ai_assistant_service.py.  A reply is modelled by its 'type',            *)
(* 'frontend_changes' and 'confidence'; its 'message' is fixed text chosen *)
(* along with the type.                                                    *)
(***************************************************************************)
\* any(word in prompt_lower for word in words)
any_word_in(words, prompt_lower) == \E i \in 1..Len(words) : Contains(words[i], prompt_lower)

reply(type, frontend_changes, confidence) ==
    [type |-> type, frontend_changes |-> frontend_changes, confidence |-> confidence]

\* lines 75-84, in declaration order
ASSISTANT_ROOMS ==
    << <<"kitchen", "southeast">>, <<"bedroom", "southwest">>,
       <<"master bedroom", "southwest">>, <<"bathroom", "northwest">>,
       <<"toilet", "northwest">>, <<"living room", "northeast">>,
       <<"puja room", "northeast">>, <<"prayer room", "northeast">> >>

\* lines 86-111
vastu_reply(found) ==
    IF found = {}
    THEN reply("info", <<>>, Rat(7, 10))
    ELSE reply("vastu_recommendation",
               [show_vastu_tip |-> TRUE, room |-> ASSISTANT_ROOMS[Min(found)][1],
                optimal_zone |-> ASSISTANT_ROOMS[Min(found)][2],
                action |-> "highlight_zone", zone |-> ASSISTANT_ROOMS[Min(found)][2]],
               Rat(95, 100))

\* lines 67-111
handle_vastu_query(prompt_lower) ==
    vastu_reply({ i \in 1..Len(ASSISTANT_ROOMS) : Contains(ASSISTANT_ROOMS[i][1], prompt_lower) })

\* lines 113-148
handle_layout_query(prompt_lower) ==
    IF Contains("compact", prompt_lower) \/ Contains("small", prompt_lower)
    THEN reply("layout_change",
               [generate_blueprint |-> TRUE, layout_type |-> "compact",
                update_ui |-> "show_blueprint_generation"], Rat(9, 10))
    ELSE IF Contains("modern", prompt_lower) \/ Contains("contemporary", prompt_lower)
    THEN reply("layout_change",
               [generate_blueprint |-> TRUE, layout_type |-> "modern",
                update_ui |-> "show_blueprint_generation"], Rat(9, 10))
    ELSE reply("layout_suggestion", [show_layout_options |-> TRUE], Rat(8, 10))

\* lines 155-162, in declaration order
ASSISTANT_COLORS ==
    << <<"blue", "#4A90E2">>, <<"green", "#2A9D8F">>, <<"orange", "#F4A261">>,
       <<"purple", "#667eea">>, <<"red", "#FF6B6B">>, <<"dark", "#2A363B">> >>

\* lines 164-194
styling_reply(found, prompt_lower) ==
    IF found # {}
    THEN reply("styling_change",
               [update_theme |-> TRUE, primary_color |-> ASSISTANT_COLORS[Min(found)][2],
                apply_css |-> TRUE], Rat(95, 100))
    ELSE IF Contains("dark mode", prompt_lower) \/ Contains("dark theme", prompt_lower)
    THEN reply("styling_change",
               [update_theme |-> TRUE, dark_mode |-> TRUE, apply_css |-> TRUE], Rat(95, 100))
    ELSE reply("info", <<>>, Rat(7, 10))

\* lines 150-194
handle_styling_query(prompt_lower) ==
    styling_reply({ i \in 1..Len(ASSISTANT_COLORS) : Contains(ASSISTANT_COLORS[i][1], prompt_lower) },
                  prompt_lower)

\* lines 196-227
handle_feature_query(prompt_lower) ==
    IF Contains("calculator", prompt_lower)
    THEN reply("feature_add", [add_component |-> "vastu_calculator", position |-> "sidebar"],
               Rat(9, 10))
    ELSE IF Contains("comparison", prompt_lower) \/ Contains("compare", prompt_lower)
    THEN reply("feature_add", [add_component |-> "layout_comparison", position |-> "main"],
               Rat(9, 10))
    ELSE reply("info", <<>>, Rat(7, 10))

\* lines 229-239
handle_analysis_query ==
    reply("analysis", [trigger_analysis |-> TRUE, show_recommendations |-> TRUE], Rat(9, 10))

\* lines 241-259 (the later of the two definitions is the one in effect)
handle_general_query(prompt_lower) ==
    IF any_word_in(<<"hello", "hi", "help">>, prompt_lower)
    THEN reply("welcome", [show_help |-> TRUE], Rat(8, 10))
    ELSE reply("general", <<>>, Rat(6, 10))

\* lines 20-44
dispatch_prompt(prompt_lower) ==
    IF any_word_in(<<"vastu", "placement", "room", "kitchen", "bedroom", "bathroom">>, prompt_lower)
    THEN handle_vastu_query(prompt_lower)
    ELSE IF any_word_in(<<"layout", "design", "blueprint", "floor plan">>, prompt_lower)
    THEN handle_layout_query(prompt_lower)
    ELSE IF any_word_in(<<"color", "theme", "style", "appearance", "design">>, prompt_lower)
    THEN handle_styling_query(prompt_lower)
    ELSE IF any_word_in(<<"add", "feature", "function", "button", "section">>, prompt_lower)
    THEN handle_feature_query(prompt_lower)
    ELSE IF any_word_in(<<"analyze", "score", "report", "recommendation">>, prompt_lower)
    THEN handle_analysis_query
    ELSE handle_general_query(prompt_lower)

\* lines 17-44
process_user_prompt(prompt, current_state) == dispatch_prompt(Lower(prompt))

\* a handler that processes the prompt without looking at it first
chat_reply_unchecked(prompt, current_state) ==
    [http |-> [status |-> 200, success |-> TRUE,
               response |-> process_user_prompt(prompt, current_state)],
     processed |-> << << prompt, current_state >> >>]

\* lines 272-288, for the prompt and state read at lines 269-270; [http, processed]
chat_reply(prompt, current_state) ==
    IF prompt = ""
    THEN [http |-> [status |-> 400, success |-> FALSE, error |-> "No prompt provided"],
          processed |-> << >>]
    ELSE [http |-> [status |-> 200, success |-> TRUE,
                    response |-> process_user_prompt(prompt, current_state)],
          processed |-> << << prompt, current_state >> >>]

\* lines 261-297; body is None when request.get_json() yields no object
chat(body) ==
    IF body = None
    THEN [http |-> error_response(NONE_HAS_NO_GET), processed |-> << >>]
    ELSE chat_reply(Get(Value(body), "prompt", ""), Get(Value(body), "current_state", <<>>))


(***************************************************************************)
(* ai_blueprint_service.py                                                 *)
(***************************************************************************)
\* str.upper() on one character (ASCII)
UpperChar(c) ==
    CASE c = "a" -> "A" [] c = "b" -> "B" [] c = "c" -> "C" [] c = "d" -> "D"
      [] c = "e" -> "E" [] c = "f" -> "F" [] c = "g" -> "G" [] c = "h" -> "H"
      [] c = "i" -> "I" [] c = "j" -> "J" [] c = "k" -> "K" [] c = "l" -> "L"
      [] c = "m" -> "M" [] c = "n" -> "N" [] c = "o" -> "O" [] c = "p" -> "P"
      [] c = "q" -> "Q" [] c = "r" -> "R" [] c = "s" -> "S" [] c = "t" -> "T"
      [] c = "u" -> "U" [] c = "v" -> "V" [] c = "w" -> "W" [] c = "x" -> "X"
      [] c = "y" -> "Y" [] c = "z" -> "Z" [] OTHER -> c

RECURSIVE Upper(_)
Upper(s) == IF Len(s) = 0 THEN "" ELSE UpperChar(Head(s)) \o Upper(Tail(s))

\* lines 67-71: one entry of room_placements per room
RECURSIVE room_placements(_, _)
room_placements(rooms, n) ==
    IF n = 0 THEN << >>
    ELSE Append(room_placements(rooms, n - 1),
                Lower(Get(rooms[n], "name", "")) \o " in " \o Lower(Get(rooms[n], "zone", "")))

\* lines 44-110: the prompt, as the values interpolated into its fixed text
prompt_of(data, rooms) ==
    [room_type |-> Upper(Get(data, "roomType", "2bhk")),
     plot_size |-> Get(data, "plotSize", "1200 sq ft"),
     orientation |-> Replace(Get(data, "orientation", "north-facing"), "-", " "),
     floor_number |-> Get(data, "floorNumber", "1"),
     total_rooms |-> Len(rooms),
     room_placements |-> room_placements(rooms, Len(rooms))]

\* lines 40-110; data is None when request.get_json() yields no object
generate_vastu_prompt(data) ==
    IF data = None
    THEN [raised |-> TRUE, error |-> NONE_HAS_NO_GET]
    ELSE [raised |-> FALSE, value |-> prompt_of(Value(data), Get(Value(data), "rooms", <<>>))]

\* base64.b64encode(content).decode('utf-8') on the contents the providers send
b64encode(content) ==
    CASE content = "" -> ""
      [] content = "png" -> "cG5n"

IMAGE_CONTENTS == { "", "png" }

\* what the HTTP exchanges of one call of a DALL-E provider can come to: the
\* POST times out or answers non-2xx, the answer carries no url, the download
\* fails, or the download delivers content
DalleOutcomes ==
    { [kind |-> "timeout"], [kind |-> "http_error"], [kind |-> "no_url"],
      [kind |-> "download_error"] }
      \cup { [kind |-> "ok", content |-> c] : c \in IMAGE_CONTENTS }

\* Hugging Face answers with the image itself
HuggingFaceOutcomes ==
    { [kind |-> "timeout"], [kind |-> "http_error"] }
      \cup { [kind |-> "ok", content |-> c] : c \in IMAGE_CONTENTS }

\* lines 117-148, 155-187 and 194-218: the try block of a provider call
image_result(outcome) ==
    IF outcome.kind = "ok" THEN Some(b64encode(outcome.content)) ELSE None

\* lines 112-148; [called, value]
call_azure_openai(enabled, net) ==
    IF ~enabled THEN [called |-> FALSE, value |-> None]
    ELSE [called |-> TRUE, value |-> image_result(net["azure_openai"])]

\* lines 150-187
call_openai_api(enabled, net) ==
    IF ~enabled THEN [called |-> FALSE, value |-> None]
    ELSE [called |-> TRUE, value |-> image_result(net["openai"])]

\* lines 189-218
call_huggingface_api(enabled, net) ==
    IF ~enabled THEN [called |-> FALSE, value |-> None]
    ELSE [called |-> TRUE, value |-> image_result(net["huggingface"])]

\* lines 231-233, 239-241 and 247-249:  if result: return result  fails to
\* return when the last provider gave nothing, and then the next step follows
step_after_keeps_trying(result, next_step) == next_step

step_after(result, next_step) == IF Truthy(result) THEN "respond" ELSE next_step

\* lines 267-281: the answer for the blueprint_image generate_ai_blueprint returned
always_ai_generated(image, prompt) ==
    [status |-> 200, success |-> TRUE, image |-> IF image = None THEN "" ELSE Value(image),
     prompt_used |-> prompt, service |-> "ai_generated"]

blueprint_response(image, prompt) ==
    IF Truthy(image)
    THEN [status |-> 200, success |-> TRUE, image |-> Value(image),
          prompt_used |-> prompt, service |-> "ai_generated"]
    ELSE [status |-> 503, success |-> FALSE,
          error |-> "AI services not configured. Please set up API keys or use procedural generation.",
          fallback_available |-> TRUE,
          fallback_endpoint |-> "http://localhost:5002/generate_blueprints"]


(***************************************************************************)
(* analyze_video_vastu.py.  A video is modelled by a name for its content; *)
(* a frame by a name for its pixels.                                       *)
(***************************************************************************)
UPLOAD_FOLDER == "uploads"

\* os.path.join(UPLOAD_FOLDER, name) for a relative name
upload_path(name) == UPLOAD_FOLDER \o "/" \o name

VIDEO_CONTENTS == { "clipA", "clipB", "junk" }

\* lines 110-111: cv2.VideoCapture(path).read() on a file holding content;
\* None when ret is false
first_frame(content) ==
    CASE content = "clipA" -> Some("frameA")
      [] content = "clipB" -> Some("frameB")
      [] OTHER -> None

\* lines 117-118: overlay_vastu_grid and draw_hud draw on the frame in place
annotate(frame) == frame \o "+grid+hud"

\* lines 127-128: cv2.imencode('.jpg', frame) and base64.b64encode
encode_frame(frame) == "base64(jpg(" \o frame \o "))"

\* line 103
no_video_response == [status |-> 400, success |-> FALSE, error |-> "No video uploaded"]

\* line 114
unreadable_response == [status |-> 500, success |-> FALSE, error |-> "Could not read video"]

\* analyze_video has no try block: Flask answers an exception that leaves the
\* view with its own 500 page
unhandled_response == [status |-> 500, content_type |-> "text/html"]

\* lines 130-137
analysis_response(frame) ==
    [status |-> 200, success |-> TRUE,
     analysis |-> [zones_identified |-> <<"Northeast", "Southeast", "Southwest", "Center">>,
                   compliance_check |-> "Visual scan complete. Terrain appears flat."],
     ar_frame |-> encode_frame(frame)]

\* the directory after a file is written under path
write_file(files, path, content) ==
    [ f \in DOMAIN files \cup { path } |-> IF f = path THEN content ELSE files[f] ]

\* line 107: file.save(path) cannot open a path that names a directory
save_fails(name) == name = ""

\* a handler of /analyze_video: its position, its local frame and its answer
handler_at(position, frame, answer) == [pc |-> position, frame |-> frame, response |-> answer]


(***************************************************************************)
(* The endpoints of the energy, assistant, blueprint and video services:   *)
(* one request per behaviour, drawn in Init, except for /analyze_video,    *)
(* where two uploads are handled concurrently.                             *)
(***************************************************************************)
ServiceRoomInputs ==
    { [name |-> "Kitchen", zone |-> "southeast"],
      [name |-> "puja room", zone |-> "Center"],
      [name |-> "Kitchen"],
      [zone |-> "center"] }

ServiceOrientationInputs == { "north-facing", "south-facing" }

EnergyEndpointBodies ==
    { None, Some(<<>>) }
      \cup { Some([rooms |-> rs, orientation |-> o]) :
                 rs \in SeqsUpTo(ServiceRoomInputs, MaxRooms), o \in ServiceOrientationInputs }
      \cup { Some([rooms |-> rs]) : rs \in SeqsUpTo(ServiceRoomInputs, MaxRooms) }
      \cup { Some([orientation |-> o]) : o \in ServiceOrientationInputs }
      \cup { Some([rooms |-> rs, element |-> "fire"]) : rs \in SeqsUpTo(ServiceRoomInputs, 1) }

EnergyEndpointRequests ==
    { [op |-> o, body |-> b] :
          o \in { "calculate_energy", "generate_heatmap" }, b \in EnergyEndpointBodies }

PromptInputs ==
    { "", "Where should the kitchen be?", "Best place for the Master Bedroom",
      "a compact layout please", "make it blue", "add a calculator", "score my home", "hello" }

ChatRequests ==
    { [op |-> "chat", body |-> b] :
          b \in { None, Some(<<>>), Some([current_state |-> [theme |-> "light"]]) }
                  \cup { Some([prompt |-> t]) : t \in PromptInputs }
                  \cup { Some([prompt |-> t, current_state |-> [theme |-> "light"]]) :
                             t \in PromptInputs } }

BlueprintBodies ==
    { None, Some(<<>>),
      Some([roomType |-> "3bhk", orientation |-> "east-facing",
            rooms |-> << [name |-> "Kitchen", zone |-> "SouthEast"], [name |-> "Hall"] >>]) }

BlueprintProviders(azure_enabled, openai_enabled, huggingface_enabled) ==
    (IF azure_enabled THEN { "azure_openai" } ELSE {})
      \cup (IF openai_enabled THEN { "openai" } ELSE {})
      \cup (IF huggingface_enabled THEN { "huggingface" } ELSE {})

BlueprintNets(providers) ==
    { n \in [providers -> DalleOutcomes \cup HuggingFaceOutcomes] :
          "huggingface" \in providers => n["huggingface"] \in HuggingFaceOutcomes }

BlueprintRequests(providers) ==
    { [op |-> "generate_ai_blueprint", body |-> b, net |-> n] :
          b \in BlueprintBodies, n \in BlueprintNets(providers) }

\* request.files.get('video') of one upload: None, or a file name and a content
VideoFiles ==
    { None } \cup { Some([filename |-> f, content |-> c]) :
                        f \in { "site.mp4", "plot.mp4", "" }, c \in VIDEO_CONTENTS }

\* draws_floats tells whether the installed OpenCV accepts the float
\* coordinates overlay_vastu_grid passes to cv2.line (lines 66-73)
VideoRequests ==
    { [op |-> "analyze_video", files |-> << f1, f2 >>, draws_floats |-> d] :
          f1 \in VideoFiles, f2 \in VideoFiles, d \in BOOLEAN }

InitBlueprint ==
    /\ AZURE_OPENAI_ENABLED \in BOOLEAN
    /\ OPENAI_ENABLED \in BOOLEAN
    /\ HUGGINGFACE_ENABLED \in BOOLEAN
    /\ request \in BlueprintRequests(BlueprintProviders(AZURE_OPENAI_ENABLED, OPENAI_ENABLED,
                                                         HUGGINGFACE_ENABLED))
    /\ blueprint_pc = "start"
    /\ video = <<>>

InitEndpoint ==
    /\ AZURE_OPENAI_ENABLED = FALSE
    /\ OPENAI_ENABLED = FALSE
    /\ HUGGINGFACE_ENABLED = FALSE
    /\ request \in EnergyEndpointRequests \cup ChatRequests
    /\ blueprint_pc = "idle"
    /\ video = <<>>

InitVideo ==
    /\ AZURE_OPENAI_ENABLED = FALSE
    /\ OPENAI_ENABLED = FALSE
    /\ HUGGINGFACE_ENABLED = FALSE
    /\ request \in VideoRequests
    /\ blueprint_pc = "idle"
    /\ video = [ i \in 1..2 |-> handler_at("start", None, None) ]

InitServices ==
    /\ InitBlueprint \/ InitEndpoint \/ InitVideo
    /\ provider_calls = <<>>
    /\ response = None
    /\ blueprint_image = None
    /\ prompts_processed = <<>>
    /\ uploads = <<>>
    /\ EnergyIdle
    /\ TablesLoaded
    /\ LayoutIdle


\* POST /calculate_energy
CalculateEnergy ==
    /\ response = None
    /\ request.op = "calculate_energy"
    /\ response' = Some(calculate_energy(request.body))
    /\ UNCHANGED <<AZURE_OPENAI_ENABLED, OPENAI_ENABLED, request, provider_calls, energy_vars,
                   service_vars, table_vars, layout_vars>>

\* POST /generate_heatmap
GenerateHeatmap ==
    /\ response = None
    /\ request.op = "generate_heatmap"
    /\ response' = Some(generate_heatmap(request.body))
    /\ UNCHANGED <<AZURE_OPENAI_ENABLED, OPENAI_ENABLED, request, provider_calls, energy_vars,
                   service_vars, table_vars, layout_vars>>

ChatAnswered(r) ==
    /\ response' = Some(r.http)
    /\ prompts_processed' = prompts_processed \o r.processed

\* POST /chat
Chat ==
    /\ response = None
    /\ request.op = "chat"
    /\ ChatAnswered(chat(request.body))
    /\ UNCHANGED <<AZURE_OPENAI_ENABLED, OPENAI_ENABLED, request, provider_calls, energy_vars,
                   HUGGINGFACE_ENABLED, blueprint_pc, blueprint_image, uploads, video,
                   table_vars, layout_vars>>

\* POST /generate_ai_blueprint, lines 261-265 and 224: the prompt is built
\* before any provider is tried; an exception leaves through lines 283-290
PromptBuilt(p) ==
    /\ response' = IF p.raised THEN Some(error_response(p.error)) ELSE response
    /\ blueprint_pc' = IF p.raised THEN "done" ELSE "azure_openai"

BlueprintPrompt ==
    /\ blueprint_pc = "start"
    /\ PromptBuilt(generate_vastu_prompt(request.body))
    /\ UNCHANGED <<AZURE_OPENAI_ENABLED, OPENAI_ENABLED, request, provider_calls, energy_vars,
                   HUGGINGFACE_ENABLED, blueprint_image, prompts_processed, uploads, video,
                   table_vars, layout_vars>>

\* one  if ...ENABLED: result = call(prompt); if result: return result  block
ProviderTried(name, r, next_step) ==
    /\ provider_calls' = IF r.called THEN Append(provider_calls, name) ELSE provider_calls
    /\ blueprint_image' = IF r.called THEN r.value ELSE blueprint_image
    /\ blueprint_pc' = IF r.called THEN step_after(r.value, next_step) ELSE next_step
    /\ UNCHANGED <<AZURE_OPENAI_ENABLED, OPENAI_ENABLED, request, response, energy_vars,
                   HUGGINGFACE_ENABLED, prompts_processed, uploads, video, table_vars, layout_vars>>

\* lines 227-233
TryAzureOpenAI ==
    /\ blueprint_pc = "azure_openai"
    /\ ProviderTried("azure_openai", call_azure_openai(AZURE_OPENAI_ENABLED, request.net),
                     "openai")

\* lines 235-241
TryOpenAI ==
    /\ blueprint_pc = "openai"
    /\ ProviderTried("openai", call_openai_api(OPENAI_ENABLED, request.net), "huggingface")

\* lines 243-249
TryHuggingFace ==
    /\ blueprint_pc = "huggingface"
    /\ ProviderTried("huggingface", call_huggingface_api(HUGGINGFACE_ENABLED, request.net),
                     "respond")

\* lines 251-252 and 267-281
BlueprintRespond ==
    /\ blueprint_pc = "respond"
    /\ response' = Some(blueprint_response(blueprint_image,
                                           generate_vastu_prompt(request.body).value))
    /\ blueprint_pc' = "done"
    /\ UNCHANGED <<AZURE_OPENAI_ENABLED, OPENAI_ENABLED, request, provider_calls, energy_vars,
                   HUGGINGFACE_ENABLED, blueprint_image, prompts_processed, uploads, video,
                   table_vars, layout_vars>>

\* the rest of the state while a step of /analyze_video changes only video and uploads
VideoFrame ==
    UNCHANGED <<suggester_vars, energy_vars, HUGGINGFACE_ENABLED, blueprint_pc, blueprint_image,
                prompts_processed, table_vars, layout_vars>>

\* lines 102-105
VideoCheck(i) ==
    /\ video[i].pc = "start"
    /\ video' = [video EXCEPT ![i] =
                    IF request.files[i] = None
                    THEN handler_at("done", None, Some(no_video_response))
                    ELSE handler_at("save", None, None)]
    /\ UNCHANGED uploads
    /\ VideoFrame

\* lines 106-107: file.save(path)
VideoSave(i) ==
    /\ video[i].pc = "save"
    /\ IF save_fails(Value(request.files[i]).filename)
       THEN /\ video' = [video EXCEPT ![i] =
                            handler_at("done", None, Some(unhandled_response))]
            /\ UNCHANGED uploads
       ELSE /\ video' = [video EXCEPT ![i] = handler_at("read", None, None)]
            /\ uploads' = write_file(uploads, upload_path(Value(request.files[i]).filename),
                                     Value(request.files[i]).content)
    /\ VideoFrame

\* lines 110-114: the capture reads what the path holds now
VideoRead(i) ==
    /\ video[i].pc = "read"
    /\ video' = [video EXCEPT ![i] =
                    IF first_frame(uploads[upload_path(Value(request.files[i]).filename)]) = None
                    THEN handler_at("done", None, Some(unreadable_response))
                    ELSE handler_at("process",
                                    first_frame(uploads[upload_path(Value(request.files[i]).filename)]),
                                    None)]
    /\ UNCHANGED uploads
    /\ VideoFrame

\* lines 117-137: the drawing, the processed frame written next to the upload,
\* and the answer
VideoProcess(i) ==
    /\ video[i].pc = "process"
    /\ IF ~request.draws_floats
       THEN /\ video' = [video EXCEPT ![i] =
                            handler_at("done", video[i].frame, Some(unhandled_response))]
            /\ UNCHANGED uploads
       ELSE /\ video' = [video EXCEPT ![i] =
                            handler_at("done", Some(annotate(Value(video[i].frame))),
                                       Some(analysis_response(annotate(Value(video[i].frame)))))]
            /\ uploads' = write_file(uploads,
                                     upload_path("processed_" \o Value(request.files[i]).filename
                                                     \o ".jpg"),
                                     annotate(Value(video[i].frame)))
    /\ VideoFrame

NextServices ==
    \/ CalculateEnergy
    \/ GenerateHeatmap
    \/ Chat
    \/ BlueprintPrompt
    \/ TryAzureOpenAI
    \/ TryOpenAI
    \/ TryHuggingFace
    \/ BlueprintRespond
    \/ \E i \in DOMAIN video : VideoCheck(i)
    \/ \E i \in DOMAIN video : VideoSave(i)
    \/ \E i \in DOMAIN video : VideoRead(i)
    \/ \E i \in DOMAIN video : VideoProcess(i)

SpecServices == InitServices /\ [][NextServices]_vars


(***************************************************************************)
(* Claims about the endpoints, checked under SpecServices                  *)
(***************************************************************************)
IsEnergyEndpoint == request.op \in { "calculate_energy", "generate_heatmap" }

\* a request body with every default of lines 47-48 and 86-87 written out
RoomWithDefaults(room) == [name |-> Get(room, "name", ""), zone |-> Get(room, "zone", "")]

BodyWithDefaults(data) ==
    [rooms |-> [ i \in 1..Len(Get(data, "rooms", <<>>)) |-> RoomWithDefaults(data["rooms"][i]) ],
     orientation |-> Get(data, "orientation", "north-facing")]

\* C12: an energy endpoint answers success for a body that lacks 'rooms',
\* 'orientation' or a room's 'name' or 'zone', with the zone energy of the same
\* body in which rooms is [], orientation is 'north-facing' and the missing
\* room fields are ''.
C12_MissingKeysDefaulted ==
    \A r \in response :
        (IsEnergyEndpoint /\ request.body # None)
        => /\ r.status = 200 /\ r.success
           /\ r.zone_energy = calculate_zone_energy(BodyWithDefaults(Value(request.body)))

C12_Witness ==
    /\ request.op = "generate_heatmap"
    /\ request.body = Some([rooms |-> << [name |-> "Kitchen"], [zone |-> "center"] >>])
    /\ \E r \in response : r.status = 200 /\ \E c \in Cells(r.zone_energy) : c = ROne

BLUEPRINT_PROVIDERS == << "azure_openai", "openai", "huggingface" >>

Priority(p) == CHOOSE i \in 1..Len(BLUEPRINT_PROVIDERS) : BLUEPRINT_PROVIDERS[i] = p

BlueprintEnabled(p) ==
    CASE p = "azure_openai" -> AZURE_OPENAI_ENABLED
      [] p = "openai" -> OPENAI_ENABLED
      [] p = "huggingface" -> HUGGINGFACE_ENABLED

Called(p) == \E i \in 1..Len(provider_calls) : provider_calls[i] = p

\* the provider's exchange delivers a non-empty image
DeliversImage(p) == request.net[p].kind = "ok" /\ request.net[p].content # ""

\* C13: every call of a blueprint provider goes to an enabled provider that was
\* not called before, while each provider of higher priority is disabled or was
\* called and gave no image, and no provider called so far gave an image.
C13_ProvidersInPriorityOrder ==
    [][ provider_calls' # provider_calls =>
          \E i \in 1..Len(BLUEPRINT_PROVIDERS) :
              /\ provider_calls' = Append(provider_calls, BLUEPRINT_PROVIDERS[i])
              /\ BlueprintEnabled(BLUEPRINT_PROVIDERS[i])
              /\ ~Called(BLUEPRINT_PROVIDERS[i])
              /\ \A j \in 1..(i - 1) :
                    \/ ~BlueprintEnabled(BLUEPRINT_PROVIDERS[j])
                    \/ Called(BLUEPRINT_PROVIDERS[j]) /\ ~DeliversImage(BLUEPRINT_PROVIDERS[j])
              /\ \A j \in 1..Len(BLUEPRINT_PROVIDERS) :
                    Called(BLUEPRINT_PROVIDERS[j]) => ~DeliversImage(BLUEPRINT_PROVIDERS[j]) ]_vars

C13_Witness ==
    /\ blueprint_pc = "done"
    /\ provider_calls = BLUEPRINT_PROVIDERS
    /\ \E r \in response : r.status = 200

IsBlueprint == request.op = "generate_ai_blueprint"

SomeProviderDelivers ==
    \E i \in 1..Len(BLUEPRINT_PROVIDERS) :
        BlueprintEnabled(BLUEPRINT_PROVIDERS[i]) /\ DeliversImage(BLUEPRINT_PROVIDERS[i])

Is503WithFallback(r) ==
    /\ r.status = 503 /\ ~r.success
    /\ "error" \in DOMAIN r
    /\ r.fallback_available
    /\ r.fallback_endpoint = "http://localhost:5002/generate_blueprints"

Is200WithImage(r) == r.status = 200 /\ "image" \in DOMAIN r

\* C14 as stated: with no provider enabled, or none delivering an image, POST
\* /generate_ai_blueprint answers 503 with the fallback hint, and it answers
\* 200 with an image exactly when some provider delivered one.
C14_ExhaustionAnswers503 ==
    \A r \in response :
        IsBlueprint
        => /\ ~SomeProviderDelivers => Is503WithFallback(r)
           /\ Is200WithImage(r) <=> SomeProviderDelivers

\* C14 amended: the same, for a body that parses to a JSON object; any other
\* body is answered 500 before a provider is tried.
C14_ExhaustionAnswers503ForObjects ==
    \A r \in response :
        IsBlueprint
        => IF request.body = None
           THEN r.status = 500 /\ provider_calls = <<>>
           ELSE /\ ~SomeProviderDelivers => Is503WithFallback(r)
                /\ Is200WithImage(r) <=> SomeProviderDelivers
                /\ Is200WithImage(r) => r.image # ""

C14_Witness ==
    /\ IsBlueprint /\ request.body # None
    /\ AZURE_OPENAI_ENABLED /\ OPENAI_ENABLED /\ HUGGINGFACE_ENABLED
    /\ Len(provider_calls) = 3
    /\ \E r \in response : r.status = 503


\* the error shape {success: false, error: <message>}
IsJsonError(r) ==
    /\ "success" \in DOMAIN r /\ "error" \in DOMAIN r
    /\ ~r.success

\* C17: an exception raised while a request is handled is answered 500 with
\* success false and the exception's message: a body that is not a JSON object
\* gets that answer, and every 500 answer of /analyze_video has that shape.
C17_ExceptionsAnswered500 ==
    /\ \A r \in response :
          (request.op \in { "calculate_energy", "generate_heatmap", "chat",
                             "generate_ai_blueprint" }
             /\ request.body = None)
          => r.status = 500 /\ IsJsonError(r) /\ r.error = NONE_HAS_NO_GET
    /\ \A i \in DOMAIN video : \A r \in video[i].response :
          r.status = 500 => IsJsonError(r)

\* the prompt a /chat body carries
PromptOf(body) == Get(Value(body), "prompt", "")

\* C18: POST /chat with a missing or empty prompt is answered 400 with success
\* false and a message and process_user_prompt is not called; POST
\* /analyze_video without a 'video' file is answered 400 likewise and its
\* handler saves and reads nothing.
C18_MissingFieldRejected ==
    /\ \A r \in response :
          (request.op = "chat" /\ request.body # None /\ PromptOf(request.body) = "")
          => /\ r.status = 400 /\ IsJsonError(r) /\ r.error = "No prompt provided"
             /\ prompts_processed = << >>
    /\ \A i \in DOMAIN video :
          request.files[i] = None
          => /\ video[i].pc \in { "start", "done" }
             /\ video[i].frame = None
             /\ \A r \in video[i].response :
                   r.status = 400 /\ IsJsonError(r) /\ r.error = "No video uploaded"
             /\ (\A j \in DOMAIN video : request.files[j] = None) => uploads = << >>

C18_Witness ==
    /\ request.op = "chat"
    /\ request.body = Some([prompt |-> "", current_state |-> [theme |-> "light"]])
    /\ \E r \in response : r.status = 400

\* what handler i answers when it is the only request the service ever handles
AloneAnswer(i) ==
    IF request.files[i] = None THEN no_video_response
    ELSE IF save_fails(Value(request.files[i]).filename) THEN unhandled_response
    ELSE IF first_frame(Value(request.files[i]).content) = None THEN unreadable_response
    ELSE IF ~request.draws_floats THEN unhandled_response
    ELSE analysis_response(annotate(Value(first_frame(Value(request.files[i]).content))))

\* C20: no handler leaves state behind and no request observes another: the
\* answer to each upload is the one it gets when handled alone, and once the
\* handlers are done the upload folder is as it was before them.
C20_NoCrossRequestState ==
    /\ \A i \in DOMAIN video : \A r \in video[i].response : r = AloneAnswer(i)
    /\ (\A i \in DOMAIN video : video[i].pc = "done") => uploads = << >>

\* two uploads of the same name: the first handler answers with a frame of the
\* second upload
C20_Interference ==
    /\ request.op = "analyze_video"
    /\ request.files[1] = Some([filename |-> "site.mp4", content |-> "clipA"])
    /\ request.files[2] = Some([filename |-> "site.mp4", content |-> "clipB"])
    /\ \E r \in video[1].response : r = analysis_response(annotate("frameB"))


(***************************************************************************)
(* The module-level tables and flags across requests: the suggester and    *)
(* the energy aggregator serve one request after another, in any order.    *)
(***************************************************************************)
\* lines 132-143 of get_vastu_suggestions store the score in the rule they found
\* and hand that rule out
table_after_lookup_scored(table, key, current_zone) ==
    IF key = None THEN table
    ELSE [table EXCEPT ![Value(key)] =
             [ f \in DOMAIN table[Value(key)] \cup { "score" } |->
                 IF f = "score" THEN score_of(table[Value(key)], current_zone)
                 ELSE table[Value(key)][f] ]]

\* lines 117-143 of get_vastu_suggestions: what the call leaves in VASTU_RULES.
\* The rule found is only read; the score goes into the new dictionary.
table_after_lookup(table, key, current_zone) == table

\* lines 132-143 on the table as it is now
lookup_in(table, key, current_zone) ==
    IF key = None THEN default_suggestions
    ELSE rule_suggestions(table[Value(key)], current_zone)

TableLookupInputs ==
    { [op |-> "get_vastu_suggestions", room_type |-> t, current_zone |-> z] :
          t \in { "Kitchen", "bedroom", "puja room", "big living room", "treehouse", "bed" },
          z \in { None, Some("southeast"), Some("SouthWest"), Some("") } }

TableLayoutInputs(azure_enabled, openai_enabled) ==
    { [op |-> "suggest_layout", body |-> Some(b), net |-> n] :
          b \in { <<>>, [rooms |-> << [name |-> "Kitchen", zone |-> "southeast"] >>],
                  [rooms |-> << [name |-> "treehouse", zone |-> "north"] >>] },
          n \in [EnabledProviders(azure_enabled, openai_enabled) ->
                     { [kind |-> "timeout"],
                       [kind |-> "ok", content |-> Some("{\"predicted_score\": 85}")] }] }

TableEnergyInputs ==
    { [op |-> "calculate_energy", body |-> Some(b)] :
          b \in { <<>>, [rooms |-> << [name |-> "Kitchen", zone |-> "southeast"] >>],
                  [rooms |-> << [name |-> "Kitchen", zone |-> "northwest"] >>,
                   orientation |-> "south-facing"] } }

InitTables ==
    /\ AZURE_OPENAI_ENABLED \in BOOLEAN
    /\ OPENAI_ENABLED \in BOOLEAN
    /\ request = [op |-> "none"]
    /\ provider_calls = <<>>
    /\ response = None
    /\ EnergyIdle
    /\ ServicesIdle
    /\ TablesLoaded
    /\ LayoutIdle

\* a call of get_vastu_suggestions
TableLookup ==
    \E r \in TableLookupInputs :
        /\ request' = r
        /\ response' = Some(lookup_in(rules_table, resolve_rule_key(r.room_type), r.current_zone))
        /\ rules_table' = table_after_lookup(rules_table, resolve_rule_key(r.room_type),
                                             r.current_zone)
        /\ provider_calls' = <<>>
        /\ UNCHANGED <<AZURE_OPENAI_ENABLED, OPENAI_ENABLED, zones_table, energy_vars,
                       service_vars, layout_vars>>

\* a call of generate_ai_layout_suggestions through POST /suggest_layout, with
\* the provider functions it calls; lines 145-295 assign to locals only
TableLayout ==
    \E r \in TableLayoutInputs(AZURE_OPENAI_ENABLED, OPENAI_ENABLED) :
        /\ request' = r
        /\ Responded(suggest_layout(r.body, AZURE_OPENAI_ENABLED, OPENAI_ENABLED, r.net))
        /\ UNCHANGED <<AZURE_OPENAI_ENABLED, OPENAI_ENABLED, table_vars, energy_vars,
                       service_vars, layout_vars>>

\* a call of calculate_zone_energy through POST /calculate_energy; lines 52-60
\* build the map from new dictionaries and lines 136 and 164 read ENERGY_ZONES
TableEnergy ==
    \E r \in TableEnergyInputs :
        /\ request' = r
        /\ response' = Some(calculate_energy(r.body))
        /\ provider_calls' = <<>>
        /\ UNCHANGED <<AZURE_OPENAI_ENABLED, OPENAI_ENABLED, table_vars, energy_vars,
                       service_vars, layout_vars>>

NextTables == TableLookup \/ TableLayout \/ TableEnergy

SpecTables == InitTables /\ [][NextTables]_vars

FirstContainment(name) ==
    LET hits == { i \in 1..Len(VASTU_RULE_KEYS) :
                    \/ Contains(VASTU_RULE_KEYS[i], name)
                    \/ Contains(name, VASTU_RULE_KEYS[i]) }
    IN IF hits = {} THEN None ELSE Some(VASTU_RULE_KEYS[Min(hits)])

\* C21: when the lower-cased input is not an exact key, the rule used is that of
\* the first key in declaration order that is a substring of the input or has
\* the input as a substring ("kitchen bedroom" gives 'kitchen', the empty name
\* gives 'kitchen'), and the default rule only when no key is.
C21_FirstContainmentWins ==
    \A r \in response :
        (IsLookup /\ Lower(request.room_type) \notin DOMAIN VASTU_RULES)
        => r = suggestions_for(FirstContainment(Lower(request.room_type)),
                               request.current_zone)


IsRules == request.op = "get_vastu_rules"

\* C29: GET /vastu_rules/<room_type> always answers success and never with
\* score 100: the score is 70 when the answer carries a rule of the table and 75
\* when it carries the default rule.
C29_RulesScoreNever100 ==
    \A r \in response :
        IsRules
        => /\ r.status = 200 /\ r.success
           /\ r.room_type = request.room_type
           /\ r.score # 100
           /\ r.score = IF "weight" \in DOMAIN r THEN 70 ELSE 75
           /\ "weight" \in DOMAIN r
                 <=> \E k \in DOMAIN VASTU_RULES : r.reasoning = VASTU_RULES[k].reasoning
           /\ NoTableMatch(request.room_type) => r.score = 75
           /\ request.room_type \in { "kitchen", "bedroom", "bathroom", "toilet" } => r.score = 70

C29_Witness ==
    /\ IsRules
    /\ request.room_type = "Kitchen"
    /\ \E r \in response : r.score = 70 /\ r.ideal_direction = "southeast"


(***************************************************************************)
(* Claims about the loop over rooms of calculate_zone_energy, SpecEnergy   *)
(***************************************************************************)
\* the room is assigned to one of the nine zones (compared in lower case)
ValidZone(room) == Lower(Get(room, "zone", "")) \in ZONES

\* the room list without the rooms the loop skips
WithoutSkipped(rooms) == SelectSeq(rooms, ValidZone)

\* C22: rooms whose zone is not one of the nine zone names have no effect on the
\* returned map: it equals the map returned for the list without them, wherever
\* they stand in the list and also when their zone contains the word 'center'.
C22_InvalidZoneNoEffect ==
    pc = "returned"
    => zone_energy = zone_energy_of(WithoutSkipped(rooms_of(space_data)),
                                    orientation_of(space_data))

C22_Witness ==
    /\ pc = "returned"
    /\ rooms_of(space_data) = << [name |-> "puja room", zone |-> "near center"],
                                 [name |-> "Kitchen", zone |-> "Center"] >>
    /\ RLess(RZero, zone_energy["center"]["space"])


\* the room the next iteration of the loop processes
CurrentRoom == rooms_of(space_data)[room_idx + 1]

\* an iteration of the loop over rooms is taken
RoomStep == pc = "rooms" /\ room_idx' = room_idx + 1

\* element and ideal zone by the keywords of a lower-cased room name
KeywordClass(room_name) ==
    IF Contains("kitchen", room_name)
    THEN [element |-> "fire", ideal |-> Some("southeast")]
    ELSE IF Contains("bath", room_name) \/ Contains("toilet", room_name)
    THEN [element |-> "water", ideal |-> Some("northwest")]
    ELSE IF Contains("bed", room_name) \/ Contains("master", room_name)
    THEN [element |-> "earth", ideal |-> Some("southwest")]
    ELSE IF Contains("living", room_name) \/ Contains("hall", room_name)
              \/ Contains("drawing", room_name)
    THEN [element |-> "air", ideal |-> Some("northeast")]
    ELSE IF Contains("puja", room_name) \/ Contains("prayer", room_name)
              \/ Contains("temple", room_name)
    THEN [element |-> "space", ideal |-> Some("northeast")]
    ELSE [element |-> "air", ideal |-> None]

\* the step treats the room as one of element k.element and ideal zone k.ideal:
\* the cell of that element in the assigned zone grows, and the ideal zone, when
\* it is another zone, receives the bonus for that element
TreatedAs(k, zone) ==
    /\ RLess(zone_energy[zone][k.element], zone_energy'[zone][k.element])
    /\ (k.ideal # None /\ Value(k.ideal) # zone)
          => zone_energy'[Value(k.ideal)][k.element]
                 = RAdd(zone_energy[Value(k.ideal)][k.element], IDEAL_ZONE_BONUS)

\* C23: a room of valid zone is treated according to the keywords of its name
\* only (kitchen fire/southeast, bath or toilet water/northwest, bed or master
\* earth/southwest, living, hall or drawing air/northeast, puja, prayer or temple
\* space/northeast, any other name air), whatever zone it is assigned to.
C23_ClassifiedByNameOnly ==
    [][ (RoomStep /\ ValidZone(CurrentRoom))
          => TreatedAs(KeywordClass(Lower(Get(CurrentRoom, "name", ""))),
                       Lower(Get(CurrentRoom, "zone", ""))) ]_vars


\* the step added compliance score c to the cell of element e in the assigned
\* zone, followed by the wrong-placement factor when misplaced is true
AddedScore(zone, e, c, misplaced) ==
    zone_energy'[zone][e]
        = IF misplaced THEN RMul(RAdd(zone_energy[zone][e], c), WRONG_PLACEMENT_FACTOR)
          ELSE RAdd(zone_energy[zone][e], c)

LOWER_SCORES == { Rat(2, 10), Rat(3, 10), Rat(4, 10) }

\* the step used compliance score 1.0 for a room in its ideal zone and a score
\* between 0.2 and 0.4 for a room in another zone
ScoredByPlacement(k, zone) ==
    IF Value(k.ideal) = zone
    THEN AddedScore(zone, k.element, ROne, FALSE)
    ELSE \E c \in LOWER_SCORES : AddedScore(zone, k.element, c, TRUE)

\* C24: for a room of valid zone whose name identifies a room type with an ideal
\* zone, the compliance score the step uses is 1.0 when the assigned zone is the
\* ideal zone and a lower constant between 0.2 and 0.4 when it is not.
C24_ComplianceByPlacement ==
    [][ ( /\ RoomStep
          /\ ValidZone(CurrentRoom)
          /\ KeywordClass(Lower(Get(CurrentRoom, "name", ""))).ideal # None )
          => ScoredByPlacement(KeywordClass(Lower(Get(CurrentRoom, "name", ""))),
                               Lower(Get(CurrentRoom, "zone", ""))) ]_vars


\* the room is assigned to a zone other than the ideal zone found for it
Misplaced(p, zone) == p.optimal_zone # None /\ Value(p.optimal_zone) # zone

\* the cells the step changes in the assigned zone: the dominant element gains
\* the compliance score (then reduced by the factor on misplacement), every
\* other natural element of the zone gains 0.2 times the score
AssignedZoneGains(p, zone) ==
    \A e \in ELEMENTS :
        IF e = p.room_element
        THEN AddedScore(zone, e, p.compliance_score, Misplaced(p, zone))
        ELSE IF \E i \in 1..Len(ENERGY_ZONES[zone].elements) : ENERGY_ZONES[zone].elements[i] = e
        THEN zone_energy'[zone][e]
                 = RAdd(zone_energy[zone][e], RMul(Rat(2, 10), p.compliance_score))
        ELSE zone_energy'[zone][e] = zone_energy[zone][e]

\* outside the assigned zone only the ideal zone of a misplaced room changes,
\* and there only the cell of the dominant element
OtherZonesKept(p, zone) ==
    \A z \in DOMAIN zone_energy \ { zone } : \A e \in ELEMENTS :
        (zone_energy'[z][e] # zone_energy[z][e])
            => (Misplaced(p, zone) /\ z = Value(p.optimal_zone) /\ e = p.room_element)

\* C25: each room of valid zone adds its compliance score to the cell (assigned
\* zone, dominant element) and 0.2 times the score to every other natural
\* element of the assigned zone; no cell of another zone changes, except in the
\* ideal zone of a misplaced room.
C25_ContributionCells ==
    [][ (RoomStep /\ ValidZone(CurrentRoom))
          => /\ AssignedZoneGains(room_placement(Lower(Get(CurrentRoom, "name", "")),
                                                 Lower(Get(CurrentRoom, "zone", ""))),
                                  Lower(Get(CurrentRoom, "zone", "")))
             /\ OtherZonesKept(room_placement(Lower(Get(CurrentRoom, "name", "")),
                                              Lower(Get(CurrentRoom, "zone", ""))),
                               Lower(Get(CurrentRoom, "zone", ""))) ]_vars

C25_Witness ==
    /\ pc = "rooms"
    /\ room_idx = 2
    /\ rooms_of(space_data) = << [name |-> "Kitchen", zone |-> "northwest"],
                                 [name |-> "Master Bedroom", zone |-> "north"] >>
    /\ zone_energy["north"]["water"] = Rat(2, 10)
    /\ zone_energy["north"]["earth"] = Rat(7, 10)
    /\ zone_energy["southwest"]["earth"] = Rat(1, 10)


\* C26: for a misplaced room the factor 0.7 applies only to the score this room
\* adds to the cell (assigned zone, dominant element): the cell grows by 0.7
\* times the score and what earlier rooms left in it is not reduced, so two
\* misplaced kitchens in one zone leave 2 * 0.7 there.
C26_PenaltyOnOwnContribution ==
    [][ ( /\ RoomStep
          /\ ValidZone(CurrentRoom)
          /\ Misplaced(room_placement(Lower(Get(CurrentRoom, "name", "")),
                                      Lower(Get(CurrentRoom, "zone", ""))),
                       Lower(Get(CurrentRoom, "zone", ""))) )
          => \E e \in ELEMENTS :
                /\ e = room_placement(Lower(Get(CurrentRoom, "name", "")),
                                      Lower(Get(CurrentRoom, "zone", ""))).room_element
                /\ zone_energy'[Lower(CurrentRoom.zone)][e]
                      = RAdd(zone_energy[Lower(CurrentRoom.zone)][e],
                             RMul(Rat(7, 10),
                                  room_placement(Lower(Get(CurrentRoom, "name", "")),
                                                 Lower(CurrentRoom.zone)).compliance_score)) ]_vars


\* the orientation step of calculate_zone_energy is taken
OrientationStep == pc = "rooms" /\ pc' = "center"

\* e is one of the natural elements of zone z
IsNatural(z, e) == \E i \in 1..Len(ENERGY_ZONES[z].elements) : ENERGY_ZONES[z].elements[i] = e

\* the step adds bonus[z] to the natural elements of every zone z listed in
\* bonus and changes no other cell
BoostedExactly(bonus) ==
    \A z \in DOMAIN zone_energy : \A e \in ELEMENTS :
        zone_energy'[z][e]
            = IF z \in DOMAIN bonus /\ IsNatural(z, e)
              THEN RAdd(zone_energy[z][e], bonus[z]) ELSE zone_energy[z][e]

NORTH_FACING_BONUS ==
    ("north" :> Rat(3, 10)) @@ ("northeast" :> Rat(4, 10)) @@ ("northwest" :> Rat(2, 10))

\* the effect of the step for the orientation key
OrientationBonus(key) ==
    /\ key = "north-facing" => BoostedExactly(NORTH_FACING_BONUS)
    /\ key \in DOMAIN orientation_benefits => BoostedExactly(orientation_benefits[key])
    /\ key \notin DOMAIN orientation_benefits => zone_energy' = zone_energy

\* C27: after the loop over rooms the orientation bonus adds a fixed constant to
\* every natural element of each zone listed for the orientation and to no other
\* cell ('north-facing': north, northeast and northwest); the orientation is
\* matched in lower case with spaces replaced by hyphens, and an orientation
\* that is not recognized adds nothing.
C27_OrientationBonus ==
    [][ OrientationStep
          => /\ room_idx = Len(rooms_of(space_data))
             /\ OrientationBonus(Replace(Lower(RequestedOrientation), " ", "-")) ]_vars

C27_Witness ==
    /\ pc = "center"
    /\ "orientation" \in DOMAIN space_data
    /\ space_data.orientation = "North Facing"
    /\ rooms_of(space_data) = << [name |-> "office", zone |-> "north"] >>
    /\ zone_energy["north"]["air"] = Rat(8, 10)
    /\ zone_energy["north"]["water"] = Rat(4, 10)
    /\ zone_energy["northwest"]["air"] = Rat(2, 10)
    /\ zone_energy["northwest"]["water"] = RZero


\* the loop counts the room and finds it in a zone other than its ideal zone
IsMisplaced(room) ==
    /\ ValidZone(room)
    /\ Misplaced(room_placement(Lower(Get(room, "name", "")), Lower(Get(room, "zone", ""))),
                 Lower(Get(room, "zone", "")))

NoneMisplaced(rooms) == \A i \in 1..Len(rooms) : ~IsMisplaced(rooms[i])

\* the room lists that are rooms in another order
Reorderings(rooms, n) ==
    { [ i \in 1..n |-> rooms[f[i]] ] :
          f \in { g \in [1..n -> 1..n] : \A i, j \in 1..n : g[i] = g[j] => i = j } }

\* what a room adds to an empty map, and the cell-wise sum of that over a list
RECURSIVE SumOfContributions(_, _)
SumOfContributions(rooms, n) ==
    IF n = 0 THEN [ z \in ZONES |-> [ e \in ELEMENTS |-> RZero ] ]
    ELSE [ z \in ZONES |-> [ e \in ELEMENTS |->
               RAdd(SumOfContributions(rooms, n - 1)[z][e],
                    process_room(initial_zone_energy, rooms[n])[z][e]) ] ]

CENTER_PAIR ==
    << [name |-> "Kitchen", zone |-> "Center"], [name |-> "puja room", zone |-> "Center"] >>

LoopEnded == pc = "rooms" /\ room_idx = Len(rooms_of(space_data))

VASTU_ZONE_POS ==
    [ z \in ZONES |->
        CASE z = "northeast" -> << Rat(75, 100), Rat(75, 100), Rat(25, 100), Rat(25, 100) >>
          [] z = "north"     -> << Rat(5, 10), Rat(75, 100), Rat(25, 100), Rat(25, 100) >>
          [] z = "northwest" -> << RZero, Rat(75, 100), Rat(25, 100), Rat(25, 100) >>
          [] z = "east"      -> << Rat(75, 100), Rat(5, 10), Rat(25, 100), Rat(25, 100) >>
          [] z = "center"    -> << Rat(35, 100), Rat(35, 100), Rat(3, 10), Rat(3, 10) >>
          [] z = "west"      -> << RZero, Rat(5, 10), Rat(25, 100), Rat(25, 100) >>
          [] z = "southeast" -> << Rat(75, 100), RZero, Rat(25, 100), Rat(25, 100) >>
          [] z = "south"     -> << Rat(5, 10), RZero, Rat(25, 100), Rat(25, 100) >>
          [] z = "southwest" -> << RZero, RZero, Rat(25, 100), Rat(25, 100) >> ]

\* str.title(): a letter is upper-cased after a character that is no letter and
\* lower-cased after a letter
RECURSIVE title_from(_, _)
title_from(s, after_letter) ==
    IF Len(s) = 0 THEN ""
    ELSE (IF after_letter THEN LowerChar(Head(s)) ELSE UpperChar(Head(s)))
             \o title_from(Tail(s), LowerChar(Head(s)) # UpperChar(Head(s)))

Title(s) == title_from(s, FALSE)

\* lines 148-167: the room type by the keywords of the lower-cased name
room_type_of(room_name_lower) ==
    IF Contains("kitchen", room_name_lower) \/ Contains("cook", room_name_lower)
    THEN "kitchen"
    ELSE IF Contains("bed", room_name_lower) \/ Contains("master", room_name_lower)
    THEN "bedroom"
    ELSE IF Contains("bath", room_name_lower) \/ Contains("toilet", room_name_lower)
              \/ Contains("wc", room_name_lower)
    THEN "bathroom"
    ELSE IF Contains("living", room_name_lower) \/ Contains("hall", room_name_lower)
              \/ Contains("drawing", room_name_lower)
    THEN "living room"
    ELSE IF Contains("dining", room_name_lower)
    THEN "dining room"
    ELSE IF Contains("puja", room_name_lower) \/ Contains("prayer", room_name_lower)
              \/ Contains("temple", room_name_lower)
    THEN "pooja room"
    ELSE IF Contains("study", room_name_lower) \/ Contains("office", room_name_lower)
    THEN "study room"
    ELSE IF Contains("store", room_name_lower) \/ Contains("utility", room_name_lower)
    THEN "store room"
    ELSE "bedroom"

\* lines 142-146, 169-173 and 186-195: an entry of room_layouts
layout_entry(name, zone, type, plot_width, plot_height) ==
    [ name |-> name,
      x |-> RMul(Rat(plot_width, 1), VASTU_ZONE_POS[zone][1]),
      y |-> RMul(Rat(plot_height, 1), VASTU_ZONE_POS[zone][2]),
      width |-> RMul(Rat(plot_width, 1), VASTU_ZONE_POS[zone][3]),
      height |-> RMul(Rat(plot_height, 1), VASTU_ZONE_POS[zone][4]),
      type |-> type,
      zone |-> zone ]

\* lines 138-174 for room_name and the lower-cased room_zone; [layouts, used]
map_named_room(layouts, used, room_name, room_zone, plot_width, plot_height) ==
    IF room_zone \in DOMAIN VASTU_ZONE_POS
    THEN [ layouts |-> Append(layouts, layout_entry(room_name, room_zone,
                                                    room_type_of(Lower(room_name)),
                                                    plot_width, plot_height)),
           used |-> used \cup { room_zone } ]
    ELSE [ layouts |-> layouts, used |-> used ]

\* lines 137-174: one iteration of the loop over the user's rooms
map_user_room(layouts, used, room, plot_width, plot_height) ==
    map_named_room(layouts, used, Get(room, "name", "Room"), Lower(Get(room, "zone", "")),
                   plot_width, plot_height)

\* lines 177-182, in declaration order
ESSENTIAL_ROOMS ==
    << [name |-> "kitchen", zone |-> "southeast", type |-> "kitchen"],
       [name |-> "master bedroom", zone |-> "southwest", type |-> "bedroom"],
       [name |-> "living room", zone |-> "northeast", type |-> "living room"],
       [name |-> "bathroom", zone |-> "northwest", type |-> "bathroom"] >>

\* add_essential without the test of used_zones
add_essential_always(layouts, used, essential, plot_width, plot_height) ==
    Append(layouts, layout_entry(Title(essential.name), essential.zone, essential.type,
                                 plot_width, plot_height))

\* lines 184-195: one iteration of the loop over essential_rooms
add_essential(layouts, used, essential, plot_width, plot_height) ==
    IF essential.zone \notin used
    THEN Append(layouts, layout_entry(Title(essential.name), essential.zone, essential.type,
                                      plot_width, plot_height))
    ELSE layouts


(***************************************************************************)
(* generate_complete_blueprint: one call per behaviour, drawn in Init; the *)
(* actions are the iterations of its two loops and the drawing.            *)
(***************************************************************************)
PlanRoomInputs ==
    { [name |-> "Kitchen", zone |-> "southeast"],
      [name |-> "Guest Bed", zone |-> "SouthEast"],
      [name |-> "Puja", zone |-> "northeast"],
      [name |-> "Hall", zone |-> "NorthWest"],
      [name |-> "Study", zone |-> "north"],
      [name |-> "Store", zone |-> "attic"],
      [name |-> "Bath"],
      [zone |-> "southwest"] }

\* plot_width and plot_height as lines 351-352 compute them for 1200 and 400 sq ft
PlotInputs == { << 34, 35 >>, << 20, 20 >> }

InitLayout ==
    /\ blueprint_args \in { [rooms |-> rs, plot_width |-> p[1], plot_height |-> p[2]] :
                                rs \in SeqsUpTo(PlanRoomInputs, MaxRooms), p \in PlotInputs }
    /\ layout_pc = "user_rooms"
    /\ layout_idx = 0
    /\ room_layouts = <<>>
    /\ used_zones = {}
    /\ SuggesterIdle
    /\ EnergyIdle
    /\ ServicesIdle
    /\ TablesLoaded

UserRoomMapped(r) ==
    /\ room_layouts' = r.layouts
    /\ used_zones' = r.used

\* lines 137-174: one iteration of  for room in rooms
MapUserRoom ==
    /\ layout_pc = "user_rooms"
    /\ layout_idx < Len(blueprint_args.rooms)
    /\ UserRoomMapped(map_user_room(room_layouts, used_zones,
                                    blueprint_args.rooms[layout_idx + 1],
                                    blueprint_args.plot_width, blueprint_args.plot_height))
    /\ layout_idx' = layout_idx + 1
    /\ UNCHANGED <<blueprint_args, layout_pc, suggester_vars, energy_vars, service_vars,
                   table_vars>>

\* lines 176-182, once the loop over the user's rooms has ended
StartEssentialRooms ==
    /\ layout_pc = "user_rooms"
    /\ layout_idx = Len(blueprint_args.rooms)
    /\ layout_pc' = "essential_rooms"
    /\ layout_idx' = 0
    /\ UNCHANGED <<blueprint_args, room_layouts, used_zones, suggester_vars, energy_vars,
                   service_vars, table_vars>>

\* lines 184-195: one iteration of  for room_name, room_info in essential_rooms.items()
AddEssentialRoom ==
    /\ layout_pc = "essential_rooms"
    /\ layout_idx < Len(ESSENTIAL_ROOMS)
    /\ room_layouts' = add_essential(room_layouts, used_zones, ESSENTIAL_ROOMS[layout_idx + 1],
                                     blueprint_args.plot_width, blueprint_args.plot_height)
    /\ layout_idx' = layout_idx + 1
    /\ UNCHANGED <<blueprint_args, layout_pc, used_zones, suggester_vars, energy_vars,
                   service_vars, table_vars>>

\* lines 197-329: every entry of room_layouts is drawn and the image returned
DrawRooms ==
    /\ layout_pc = "essential_rooms"
    /\ layout_idx = Len(ESSENTIAL_ROOMS)
    /\ layout_pc' = "drawn"
    /\ UNCHANGED <<blueprint_args, layout_idx, room_layouts, used_zones, suggester_vars,
                   energy_vars, service_vars, table_vars>>

NextLayout == MapUserRoom \/ StartEssentialRooms \/ AddEssentialRoom \/ DrawRooms

SpecLayout == InitLayout /\ [][NextLayout]_vars


(***************************************************************************)
(* Claim about generate_complete_blueprint, checked under SpecLayout       *)
(***************************************************************************)
CORNER_ZONES == { "southeast", "southwest", "northeast", "northwest" }

\* the user's rooms whose zone is one of the nine zones, in input order
UserRoomsKept == SelectSeq(blueprint_args.rooms, ValidZone)

ZonesOf(rooms) == { Lower(rooms[i].zone) : i \in 1..Len(rooms) }

\* C30: the drawn layout has at least one room in each of southeast, southwest,
\* northeast and northwest: it consists of every user room of valid zone, in
\* input order and also when several share a zone, followed by one essential
\* room for exactly those of the four zones that no such user room occupies;
\* user rooms of invalid zone are left out.
C30_CornerZonesCovered ==
    layout_pc = "drawn"
    => /\ \A z \in CORNER_ZONES : \E i \in 1..Len(room_layouts) : room_layouts[i].zone = z
       /\ Len(room_layouts)
             = Len(UserRoomsKept) + Cardinality(CORNER_ZONES \ ZonesOf(UserRoomsKept))
       /\ \A i \in 1..Len(UserRoomsKept) :
             /\ room_layouts[i].name = Get(UserRoomsKept[i], "name", "Room")
             /\ room_layouts[i].zone = Lower(UserRoomsKept[i].zone)
       /\ \A z \in CORNER_ZONES \ ZonesOf(UserRoomsKept) :
             \E i \in (Len(UserRoomsKept) + 1)..Len(room_layouts) :
                 /\ room_layouts[i].zone = z
                 /\ \A j \in (Len(UserRoomsKept) + 1)..Len(room_layouts) :
                       room_layouts[j].zone = z => j = i

C30_Witness ==
    /\ layout_pc = "drawn"
    /\ blueprint_args.rooms = << [name |-> "Guest Bed", zone |-> "SouthEast"],
                                 [name |-> "Store", zone |-> "attic"] >>
    /\ Len(room_layouts) = 4
    /\ room_layouts[1].name = "Guest Bed"
    /\ room_layouts[2].name = "Master Bedroom"

====
